---- MODULE Spec2Model ----
(***************************************************************************)
(* FranzCode front end: the Lexer (src/lexer.py) and the recursive-descent *)
(* Parser (src/parser.py), modelled as state machines over bounded source  *)
(* texts and token sequences.                                              *)
(*                                                                         *)
(* A character is a one-character string; a source text is a sequence of   *)
(* characters.  Positions (pos) are 0-based as in the Python code, so the  *)
(* character at pos is source[pos + 1].                                    *)
(***************************************************************************)
EXTENDS Integers, Sequences, FiniteSets, TLC

(***************************************************************************)
(* Bounds of the model.                                                    *)
(***************************************************************************)
MaxSrcLen == 4
MaxBlockChunks == 5
MaxExprLen == 5
MaxParenChunks == 5
MaxFairChunks == 4
MaxCount == 3

(***************************************************************************)
(* Characters and the Python str predicates the lexer uses.                *)
(***************************************************************************)
None == "None"

\* U+00B2 SUPERSCRIPT TWO: str.isdigit() and str.isalnum() are True for it,
\* but int() and float() reject it.
Sup2 == "U+00B2"

LowerLetters == <<"a","b","c","d","e","f","g","h","i","j","k","l","m",
                  "n","o","p","q","r","s","t","u","v","w","x","y","z">>
UpperLetters == <<"A","B","C","D","E","F","G","H","I","J","K","L","M",
                  "N","O","P","Q","R","S","T","U","V","W","X","Y","Z">>

DecimalDigits == <<"0","1","2","3","4","5","6","7","8","9">>

Range(f) == {f[i] : i \in DOMAIN f}

isdecimal(ch) == ch \in Range(DecimalDigits)

isdigit(ch) == isdecimal(ch) \/ ch = Sup2

isalpha(ch) == ch \in Range(LowerLetters) \/ ch \in Range(UpperLetters)

isalnum(ch) == isalpha(ch) \/ isdigit(ch)

upper(ch) ==
    IF ch \in Range(LowerLetters)
    THEN UpperLetters[CHOOSE i \in DOMAIN LowerLetters : LowerLetters[i] = ch]
    ELSE ch

\* "".join(buf) and "".join(buf).upper() for a list of characters
RECURSIVE join(_)
join(buf) == IF buf = <<>> THEN "" ELSE Head(buf) \o join(Tail(buf))

RECURSIVE joinUpper(_)
joinUpper(buf) == IF buf = <<>> THEN "" ELSE upper(Head(buf)) \o joinUpper(Tail(buf))

\* int(raw): the value of a string of decimal digits
RECURSIVE intOf(_)
intOf(buf) ==
    IF buf = <<>> THEN 0
    ELSE 10 * intOf(SubSeq(buf, 1, Len(buf) - 1))
         + (CHOOSE i \in DOMAIN DecimalDigits : DecimalDigits[i] = buf[Len(buf)]) - 1

RECURSIVE stripZeros(_)
stripZeros(buf) ==
    IF buf # <<>> /\ buf[Len(buf)] = "0"
    THEN stripZeros(SubSeq(buf, 1, Len(buf) - 1))
    ELSE buf

\* float(raw) for raw with exactly one ".": the decimal mantissa and the
\* number of fractional digits, trailing zeros dropped (1.50 = 1.5, 1. = 1.0)
floatOf(buf) ==
    LET d    == CHOOSE i \in DOMAIN buf : buf[i] = "."
        ip   == SubSeq(buf, 1, d - 1)
        fp   == stripZeros(SubSeq(buf, d + 1, Len(buf)))
    IN  [k |-> "float", mant |-> intOf(ip \o fp), scale |-> Len(fp)]

(***************************************************************************)
(* Token types and the keyword table.                                      *)
(***************************************************************************)
KEYWORDS ==
    {"SAY", "YELL", "WHISPER", "CONFUSE", "REPEAT", "TIMES", "SET", "TO",
     "ADD", "SUB", "MUL", "DIV", "BY", "IF", "THEN", "ELSE", "ENDIF", "AND",
     "OR", "NOT", "LOOP", "ENDLOOP", "BREAKOUT", "WAIT", "SECONDS", "DUMP",
     "STOP", "RICKROLL", "MYSTERY", "OOPS", "FLIP", "DICE", "YEET", "BRUH",
     "POGGERS"}

TT ==
    {"NUMBER", "STRING", "IDENTIFIER", "PLUS", "MINUS", "STAR", "SLASH",
     "PERCENT", "POWER", "EQ", "NEQ", "GT", "LT", "GTE", "LTE", "LPAREN",
     "RPAREN", "NEWLINE", "EOF"} \cup KEYWORDS

NoneValue == [k |-> "None"]
StrValue(s) == [k |-> "str", s |-> s]
IntValue(n) == [k |-> "int", n |-> n]

Token(tt, value, line, col) == [type |-> tt, value |-> value, line |-> line, col |-> col]

(***************************************************************************)
(* State.                                                                  *)
(*   source, pos, line, col, tokens : the fields of the Lexer object       *)
(*   lstatus : where tokenize() is: "running", "returned", or the name of  *)
(*             the exception that left it                                  *)
(*   run, prev : the number of the Lexer object working on this source and *)
(*             the outcome of the object before it                         *)
(*   pinput  : the token list handed to Parser(tokens)                     *)
(*   ptokens, ppos : the fields tokens and pos of the Parser object        *)
(*   pbody   : the local list body of Parser.parse                         *)
(*   pstatus : where the parser is: "new" (not constructed), "parsing",    *)
(*             "returned", or the name of the exception that left parse()  *)
(*   presult : the exception raised, or the ProgramNode returned           *)
(*   envs    : the Environment objects constructed so far, each with its   *)
(*             fields vars and parent (0 for None, else the number of the  *)
(*             parent object in envs)                                      *)
(*   ecall   : the last call made on an Environment object and what it     *)
(*             returned or raised                                          *)
(*   rinput  : the token list of the program handed to the interpreter     *)
(*   rprogram, rpc : the ProgramNode run() executes and the number of      *)
(*             statements of its body executed                             *)
(*   rout    : what the program has printed, one entry per output          *)
(*   rstatus : where run() is: "new", "running", "returned", or the name   *)
(*             of what left it                                             *)
(*   rerr    : the exception that left run()                               *)
(*   rlog    : one entry per execution of a body of an IF or a LOOP, not   *)
(*             state of the program: the scope it ran in and the names     *)
(*             of the parent scope before and after                        *)
(*   buffer, depth, running : the fields of the REPL object                *)
(*   nread   : the number of lines the REPL has read                       *)
(*   handed  : the source texts the REPL has handed to run_source, not     *)
(*             state of the program                                        *)
(*   reported : the errors the driver has printed                          *)
(***************************************************************************)
VARIABLES source, pos, line, col, tokens, lstatus, run, prev,
          pinput, ptokens, ppos, pbody, pstatus, presult,
          envs, ecall,
          rinput, rprogram, rpc, rout, rstatus, rerr, rlog,
          buffer, depth, running, nread, handed, reported, exited,
          bprogram, bstack, benvs, bout, bstatus

lexvars == <<source, pos, line, col, tokens, lstatus, run, prev>>
parvars == <<pinput, ptokens, ppos, pbody, pstatus, presult>>
envvars == <<envs, ecall>>
runvars == <<rinput, rprogram, rpc, rout, rstatus, rerr, rlog>>
replvars == <<buffer, depth, running, nread, handed, reported, exited>>
bracevars == <<bprogram, bstack, benvs, bout, bstatus>>
vars == <<source, pos, line, col, tokens, lstatus, run, prev,
          pinput, ptokens, ppos, pbody, pstatus, presult, envs, ecall,
          rinput, rprogram, rpc, rout, rstatus, rerr, rlog,
          buffer, depth, running, nread, handed, reported, exited,
          bprogram, bstack, benvs, bout, bstatus>>

\* the objects of one component before any of them is constructed
EnvIdle ==
    /\ envs = <<>>
    /\ ecall = NoneValue

RunIdle ==
    /\ rinput = <<>>
    /\ rprogram = NoneValue
    /\ rpc = 0
    /\ rout = <<>>
    /\ rstatus = "idle"
    /\ rerr = NoneValue
    /\ rlog = <<>>

ReplIdle ==
    /\ buffer = <<>>
    /\ depth = 0
    /\ running = FALSE
    /\ nread = 0
    /\ handed = <<>>
    /\ reported = <<>>
    /\ exited = 0 - 1

BraceIdle ==
    /\ bprogram = NoneValue
    /\ bstack = <<>>
    /\ benvs = <<>>
    /\ bout = <<>>
    /\ bstatus = "idle"


(***************************************************************************)
(* Lexer helpers.  L is the scanning part of the Lexer object,             *)
(* [pos, line, col]; a sub-reader returns the scanning state it leaves,    *)
(* the exception it raised ("none" if it returned) and the tokens it added.*)
(***************************************************************************)
\* Lexer(source); left is the token list the Lexer object before this one
\* ended with (empty for the first), which a new object must not see.
\* Here: a token list shared between the objects instead of a fresh one.
Lexer__init__SharedTokens(src, left) ==
    [pos |-> 0, line |-> 1, col |-> 1, tokens |-> left]

Lexer__init__(src, left) == [pos |-> 0, line |-> 1, col |-> 1, tokens |-> <<>>]

_current(src, p) == IF p < Len(src) THEN src[p + 1] ELSE None

_peek(src, p) == IF p + 1 < Len(src) THEN src[p + 2] ELSE None

_advance(src, L) ==
    LET ch == src[L.pos + 1]
    IN  [pos  |-> L.pos + 1,
         line |-> IF ch = "\n" THEN L.line + 1 ELSE L.line,
         col  |-> IF ch = "\n" THEN 1 ELSE L.col + 1]

_add(L, tt, value) == Token(tt, value, L.line, L.col)

Returned(L, toks) == [exc |-> "none", msg |-> "", L |-> L, toks |-> toks]
Raised(exc, msg, L) == [exc |-> exc, msg |-> msg, L |-> L, toks |-> <<>>]

RECURSIVE _skip_line_comment(_, _)
RECURSIVE _skip_line_comment_ThroughNewline(_, _)
\* a _skip_line_comment that takes the newline with the comment
_skip_line_comment_ThroughNewline(src, L) ==
    IF _current(src, L.pos) # None
    THEN (IF _current(src, L.pos) = "\n" THEN _advance(src, L)
          ELSE _skip_line_comment_ThroughNewline(src, _advance(src, L)))
    ELSE L

_skip_line_comment(src, L) ==
    IF _current(src, L.pos) # None /\ _current(src, L.pos) # "\n"
    THEN _skip_line_comment(src, _advance(src, L))
    ELSE L

RECURSIVE read_string_loop(_, _, _, _)
read_string_loop(src, L, quote, buf) ==
    LET c == _current(src, L.pos)
    IN  IF c # None /\ c # quote
        THEN IF c = "\n"
             THEN Raised("LexError", "Unterminated string", L)
             ELSE read_string_loop(src, _advance(src, L), quote, Append(buf, c))
        ELSE IF c = None
             THEN Raised("LexError", "Unterminated string at end of file", L)
             ELSE LET L2 == _advance(src, L)
                  IN  Returned(L2, <<_add(L2, "STRING", StrValue(join(buf)))>>)

_read_string(src, L, quote) == read_string_loop(src, _advance(src, L), quote, <<>>)

\* int(raw) if dots = 0 else float(raw); both raise ValueError on a digit
\* character that is not a decimal digit
number_value(buf, dots) ==
    IF \E i \in DOMAIN buf : buf[i] # "." /\ ~isdecimal(buf[i])
    THEN [exc |-> "ValueError"]
    ELSE [exc |-> "none", v |-> IF dots > 0 THEN floatOf(buf) ELSE IntValue(intOf(buf))]

RECURSIVE read_number_loop(_, _, _, _)
read_number_loop(src, L, buf, dots) ==
    LET c == _current(src, L.pos)
    IN  IF c # None /\ (isdigit(c) \/ c = ".")
        THEN LET d == IF c = "." THEN dots + 1 ELSE dots
             IN  IF d > 1
                 THEN Raised("LexError", "Malformed number", L)
                 ELSE read_number_loop(src, _advance(src, L), Append(buf, c), d)
        ELSE LET nv == number_value(buf, dots)
             IN  IF nv.exc # "none"
                 THEN Raised(nv.exc, "invalid literal", L)
                 ELSE Returned(L, <<_add(L, "NUMBER", nv.v)>>)

_read_number(src, L) == read_number_loop(src, L, <<>>, 0)

RECURSIVE read_word_loop(_, _, _)
read_word_loop(src, L, buf) ==
    LET c == _current(src, L.pos)
    IN  IF c # None /\ (isalnum(c) \/ c = "_")
        THEN read_word_loop(src, _advance(src, L), Append(buf, c))
        ELSE IF joinUpper(buf) \in KEYWORDS
             THEN Returned(L, <<_add(L, joinUpper(buf), StrValue(joinUpper(buf)))>>)
             ELSE Returned(L, <<_add(L, "IDENTIFIER", StrValue(join(buf)))>>)

\* the keyword table looked up with the word as written, not upper-cased
RECURSIVE read_word_loop_CaseSensitive(_, _, _)
read_word_loop_CaseSensitive(src, L, buf) ==
    LET c == _current(src, L.pos)
    IN  IF c # None /\ (isalnum(c) \/ c = "_")
        THEN read_word_loop_CaseSensitive(src, _advance(src, L), Append(buf, c))
        ELSE IF join(buf) \in KEYWORDS
             THEN Returned(L, <<_add(L, join(buf), StrValue(join(buf)))>>)
             ELSE Returned(L, <<_add(L, "IDENTIFIER", StrValue(join(buf)))>>)

_read_word_CaseSensitive(src, L) == read_word_loop_CaseSensitive(src, L, <<>>)

_read_word(src, L) == read_word_loop(src, L, <<>>)

\* the two-character and the single-character operator tables of tokenize
TwoCharOps ==
    [c \in {"*", "=", "!", ">", "<"} |->
        CASE c = "*" -> [second |-> "*", tt |-> "POWER", text |-> "**"]
          [] c = "=" -> [second |-> "=", tt |-> "EQ",    text |-> "=="]
          [] c = "!" -> [second |-> "=", tt |-> "NEQ",   text |-> "!="]
          [] c = ">" -> [second |-> "=", tt |-> "GTE",   text |-> ">="]
          [] c = "<" -> [second |-> "=", tt |-> "LTE",   text |-> "<="]]

SingleCharOps ==
    [c \in {"+", "-", "*", "/", "%", ">", "<", "(", ")"} |->
        CASE c = "+" -> "PLUS"    [] c = "-" -> "MINUS" [] c = "*" -> "STAR"
          [] c = "/" -> "SLASH"   [] c = "%" -> "PERCENT"
          [] c = ">" -> "GT"      [] c = "<" -> "LT"
          [] c = "(" -> "LPAREN"  [] c = ")" -> "RPAREN"]

\* the chain with the single-character operators tested before the
\* two-character ones
BranchSingleFirst(src, p) ==
    LET ch == _current(src, p)
        pk == _peek(src, p)
    IN  IF ch \in {" ", "\t", "\r"} THEN "whitespace"
        ELSE IF ch = "\n" THEN "newline"
        ELSE IF ch = "/" /\ pk = "/" THEN "comment"
        ELSE IF ch = "#" THEN "comment"
        ELSE IF ch \in {"\"", "'"} THEN "string"
        ELSE IF isdigit(ch) \/ (ch = "." /\ pk # None /\ isdigit(pk)) THEN "number"
        ELSE IF isalpha(ch) \/ ch = "_" THEN "word"
        ELSE IF ch \in DOMAIN SingleCharOps THEN "singlechar"
        ELSE IF ch \in DOMAIN TwoCharOps /\ pk = TwoCharOps[ch].second THEN "twochar"
        ELSE "unexpected"

\* the if/elif chain of tokenize: the branch taken with ch at p
Branch(src, p) ==
    LET ch == _current(src, p)
        pk == _peek(src, p)
    IN  IF ch \in {" ", "\t", "\r"} THEN "whitespace"
        ELSE IF ch = "\n" THEN "newline"
        ELSE IF ch = "/" /\ pk = "/" THEN "comment"
        ELSE IF ch = "#" THEN "comment"
        ELSE IF ch \in {"\"", "'"} THEN "string"
        ELSE IF isdigit(ch) \/ (ch = "." /\ pk # None /\ isdigit(pk)) THEN "number"
        ELSE IF isalpha(ch) \/ ch = "_" THEN "word"
        ELSE IF ch \in DOMAIN TwoCharOps /\ pk = TwoCharOps[ch].second THEN "twochar"
        ELSE IF ch \in DOMAIN SingleCharOps THEN "singlechar"
        ELSE "unexpected"

Scan == [pos |-> pos, line |-> line, col |-> col]

AtChar(b) == lstatus = "running" /\ _current(source, pos) # None /\ Branch(source, pos) = b

\* the effect of one iteration of the loop of tokenize
Step(r) ==
    /\ pos' = r.L.pos
    /\ line' = r.L.line
    /\ col' = r.L.col
    /\ tokens' = tokens \o r.toks
    /\ lstatus' = IF r.exc = "none" THEN "running" ELSE r.exc
    /\ UNCHANGED <<source, run, prev>>
    /\ UNCHANGED <<parvars, envvars, runvars, replvars, bracevars>>

LexWhitespace == AtChar("whitespace") /\ Step(Returned(_advance(source, Scan), <<>>))

LexNewline ==
    AtChar("newline") /\ Step(Returned(_advance(source, Scan), <<_add(Scan, "NEWLINE", NoneValue)>>))

LexComment == AtChar("comment") /\ Step(Returned(_skip_line_comment(source, Scan), <<>>))

LexString == AtChar("string") /\ Step(_read_string(source, Scan, _current(source, pos)))

LexNumber == AtChar("number") /\ Step(_read_number(source, Scan))

LexWord == AtChar("word") /\ Step(_read_word(source, Scan))

LexTwoCharOp ==
    /\ AtChar("twochar")
    /\ LET op == TwoCharOps[_current(source, pos)]
           L2 == _advance(source, _advance(source, Scan))
       IN  Step(Returned(L2, <<_add(L2, op.tt, StrValue(op.text))>>))

LexSingleCharOp ==
    /\ AtChar("singlechar")
    /\ LET ch == _current(source, pos)
           L2 == _advance(source, Scan)
       IN  Step(Returned(L2, <<_add(L2, SingleCharOps[ch], StrValue(ch))>>))

LexUnexpected == AtChar("unexpected") /\ Step(Raised("LexError", "Unexpected character", Scan))

\* tokenize returning without the end marker
LexReturnNoEOF ==
    /\ lstatus = "running"
    /\ _current(source, pos) = None
    /\ lstatus' = "returned"
    /\ UNCHANGED <<source, pos, line, col, tokens, run, prev>>
    /\ UNCHANGED <<parvars, envvars, runvars, replvars, bracevars>>

\* the end of the loop: self._add(TT.EOF); return self.tokens
LexReturn ==
    /\ lstatus = "running"
    /\ _current(source, pos) = None
    /\ tokens' = Append(tokens, _add(Scan, "EOF", NoneValue))
    /\ lstatus' = "returned"
    /\ UNCHANGED <<source, pos, line, col, run, prev>>
    /\ UNCHANGED <<parvars, envvars, runvars, replvars, bracevars>>

Outcome == [status |-> lstatus, tokens |-> IF lstatus = "returned" THEN tokens ELSE <<>>]

\* a second Lexer(source) on the same text, after the first tokenize() ended
LexAgain ==
    /\ lstatus # "running"
    /\ run = 1
    /\ LET o == Lexer__init__(source, tokens)
       IN  /\ pos' = o.pos
           /\ line' = o.line
           /\ col' = o.col
           /\ tokens' = o.tokens
    /\ lstatus' = "running"
    /\ run' = 2
    /\ prev' = Outcome
    /\ UNCHANGED source
    /\ UNCHANGED <<parvars, envvars, runvars, replvars, bracevars>>

(***************************************************************************)
(* Source texts the lexer is run on: every text of at most MaxSrcLen       *)
(* characters over one of four small alphabets.                            *)
(***************************************************************************)
SeqsUpTo(A, n) == UNION {[1..k -> A] : k \in 0..n}

OpChars     == {"*", "=", "!", ">", "<", "a", " "}
WordChars   == {"t", "o", "T", "O", "_", "1", " "}
StringChars == {"\"", "'", "\n", "a", "#", "/", " "}
NumberChars == {"1", "0", ".", Sup2, "a", "$", "\n"}

Sources ==
    SeqsUpTo(OpChars, MaxSrcLen) \cup SeqsUpTo(WordChars, MaxSrcLen)
    \cup SeqsUpTo(StringChars, MaxSrcLen) \cup SeqsUpTo(NumberChars, MaxSrcLen)

ParserIdle ==
    /\ pinput = <<>>
    /\ ptokens = <<>>
    /\ ppos = 0
    /\ pbody = <<>>
    /\ pstatus = "idle"
    /\ presult = NoneValue

LexInit ==
    /\ source \in Sources
    /\ run = 1
    /\ prev = NoneValue
    /\ LET o == Lexer__init__(source, <<>>)
       IN  /\ pos = o.pos
           /\ line = o.line
           /\ col = o.col
           /\ tokens = o.tokens
    /\ lstatus = "running"
    /\ ParserIdle
    /\ EnvIdle
    /\ RunIdle
    /\ ReplIdle
    /\ BraceIdle

LexNext ==
    \/ LexWhitespace
    \/ LexNewline
    \/ LexComment
    \/ LexString
    \/ LexNumber
    \/ LexWord
    \/ LexTwoCharOp
    \/ LexSingleCharOp
    \/ LexUnexpected
    \/ LexReturn
    \/ LexAgain

LexSpec == LexInit /\ [][LexNext]_vars


(***************************************************************************)
(* Properties of the lexer.                                                *)
(***************************************************************************)

\* C1: whenever tokenize returns, the token list ends with an EOF token and
\* no EOF token stands before the last position (and while tokenize is
\* still running no EOF token has been added at all).
C1_EndsWithSingleEOF ==
    /\ lstatus = "returned" =>
          /\ tokens # <<>>
          /\ tokens[Len(tokens)].type = "EOF"
          /\ \A i \in 1..(Len(tokens) - 1) : tokens[i].type # "EOF"
    /\ lstatus # "returned" => \A i \in DOMAIN tokens : tokens[i].type # "EOF"

C1_Witness ==
    /\ lstatus = "returned"
    /\ Len(tokens) >= 3
    /\ tokens[Len(tokens)].type = "EOF"

\* The lexical faults of a source text, read off the text itself: scanning
\* from position i (1-based) at a token boundary, is there an unterminated
\* string, a number with more than one decimal point, or a character that
\* starts no token?
IsWordChar(c) == isalnum(c) \/ c = "_"
IsNumberChar(c) == isdigit(c) \/ c = "."

\* the first index >= i whose character is not in the class P, or Len + 1
RunEnd(src, i, P(_)) ==
    CHOOSE j \in i..(Len(src) + 1) :
        /\ \A k \in i..(j - 1) : P(src[k])
        /\ j = Len(src) + 1 \/ ~P(src[j])

NotNewline(c) == c # "\n"

RECURSIVE HasLexFault(_, _)
HasLexFault(src, i) ==
    IF i > Len(src) THEN FALSE
    ELSE
    LET c   == src[i]
        nxt == IF i < Len(src) THEN src[i + 1] ELSE None
    IN  CASE c \in {" ", "\t", "\r", "\n"} -> HasLexFault(src, i + 1)
          [] c = "#" \/ (c = "/" /\ nxt = "/") ->
                HasLexFault(src, RunEnd(src, i, NotNewline))
          [] c \in {"\"", "'"} ->
                LET InString(d) == d # c /\ d # "\n"
                    j == RunEnd(src, i + 1, InString)
                IN  IF j > Len(src) \/ src[j] = "\n" THEN TRUE
                    ELSE HasLexFault(src, j + 1)
          [] isdigit(c) \/ (c = "." /\ nxt # None /\ isdigit(nxt)) ->
                LET j == RunEnd(src, i, IsNumberChar)
                IN  IF Cardinality({k \in i..(j - 1) : src[k] = "."}) > 1 THEN TRUE
                    ELSE HasLexFault(src, j)
          [] isalpha(c) \/ c = "_" -> HasLexFault(src, RunEnd(src, i, IsWordChar))
          [] c \in {"*", "=", "!", ">", "<"} /\ nxt = (IF c = "*" THEN "*" ELSE "=") ->
                HasLexFault(src, i + 2)
          [] c \in {"+", "-", "*", "/", "%", ">", "<", "(", ")"} ->
                HasLexFault(src, i + 1)
          [] OTHER -> TRUE

\* C2: tokenize raises LexError exactly on the sources with a lexical fault
\* (unterminated string, number with more than one decimal point, character
\* that starts no token) and returns a token list on every other source.
C2_LexErrorExactlyOnFaults ==
    lstatus # "running" =>
        /\ HasLexFault(source, 1) => lstatus = "LexError"
        /\ ~HasLexFault(source, 1) => lstatus = "returned"

\* C2, on the sources whose digits are all decimal digits: there tokenize
\* does raise LexError exactly on the lexical faults.
C2_OnDecimalDigits ==
    (lstatus # "running" /\ \A i \in DOMAIN source : source[i] # Sup2) =>
        /\ HasLexFault(source, 1) => lstatus = "LexError"
        /\ ~HasLexFault(source, 1) => lstatus = "returned"

\* C3: a word whose upper-cased text is in the keyword table yields the
\* keyword token whatever its casing (to, To, tO, TO all yield TO); any
\* other word yields an IDENTIFIER token whose value is the word as written.
C3_KeywordOrIdentifier ==
    [][ AtChar("word") =>
          LET w == SubSeq(source, pos + 1, RunEnd(source, pos + 1, IsWordChar) - 1)
              t == tokens'[Len(tokens')]
          IN  /\ Len(tokens') = Len(tokens) + 1
              /\ pos' = pos + Len(w)
              /\ joinUpper(w) \in KEYWORDS => t.type = joinUpper(w)
              /\ w \in {<<"t", "o">>, <<"T", "o">>, <<"t", "O">>, <<"T", "O">>}
                    => t.type = "TO"
              /\ joinUpper(w) \notin KEYWORDS =>
                    t.type = "IDENTIFIER" /\ t.value = StrValue(join(w))
      ]_vars

\* a lower-case keyword and a mixed-case identifier have both been emitted
C3_Witness ==
    /\ source = <<"t", "o", " ", "O">>
    /\ Len(tokens) = 2
    /\ tokens[1].type = "TO"
    /\ tokens[2] = Token("IDENTIFIER", StrValue("O"), 1, 5)

\* C4: with the unread source starting with one of ** == != >= <= the step
\* of tokenize adds exactly one token, of the two-character kind, and
\* consumes both characters; * > < not followed by their second character
\* yield STAR, GT, LT.
TwoCharKind(a, b) ==
    CASE a = "*" /\ b = "*" -> "POWER"
      [] a = "=" /\ b = "=" -> "EQ"
      [] a = "!" /\ b = "=" -> "NEQ"
      [] a = ">" /\ b = "=" -> "GTE"
      [] a = "<" /\ b = "=" -> "LTE"
      [] OTHER -> None

C4_TwoCharBeforeSingle ==
    [][ LET a == _current(source, pos)
            b == _peek(source, pos)
        IN  /\ (lstatus = "running" /\ a # None /\ TwoCharKind(a, b) # None) =>
                  /\ pos' = pos + 2
                  /\ Len(tokens') = Len(tokens) + 1
                  /\ tokens'[Len(tokens')].type = TwoCharKind(a, b)
            /\ (lstatus = "running" /\ a \in {"*", ">", "<"} /\ TwoCharKind(a, b) = None) =>
                  /\ pos' = pos + 1
                  /\ Len(tokens') = Len(tokens) + 1
                  /\ tokens'[Len(tokens')].type =
                        (CASE a = "*" -> "STAR" [] a = ">" -> "GT" [] a = "<" -> "LT")
      ]_vars

\* *** has been read as POWER then STAR
C4_Witness ==
    /\ source = <<"*", "*", "*", "=">>
    /\ Len(tokens) = 2
    /\ tokens[1].type = "POWER"
    /\ tokens[2].type = "STAR"

\* C5: a second Lexer on the same source text ends as the first did: the
\* same exception, or the same token list (length, and kind, value, line
\* and column position by position).
C5_SameTokensTwice ==
    (run = 2 /\ lstatus # "running") =>
        /\ lstatus = prev.status
        /\ lstatus = "returned" =>
              /\ Len(tokens) = Len(prev.tokens)
              /\ \A i \in DOMAIN tokens :
                    /\ tokens[i].type = prev.tokens[i].type
                    /\ tokens[i].value = prev.tokens[i].value
                    /\ tokens[i].line = prev.tokens[i].line
                    /\ tokens[i].col = prev.tokens[i].col

C5_Witness ==
    /\ run = 2
    /\ lstatus = "returned"
    /\ Len(tokens) >= 3
    /\ tokens = prev.tokens


(***************************************************************************)
(* Parser (src/parser.py).  A parse routine is an operator of the token    *)
(* list and the cursor; it returns either                                  *)
(*   [exc |-> "none", pos, node]   the cursor it leaves and its result, or *)
(*   [exc |-> <exception>, pos, msg, line, got]   the exception raised and *)
(*   the cursor at the raise.                                              *)
(* AST nodes are records whose field node is the class name.  The field    *)
(* paren of an expression node is not a field of the Python class: it      *)
(* records that _primary returned the node from its '(' expr ')' branch.   *)
(***************************************************************************)
\* without the filter on NEWLINE
Parser__init__KeepNewlines(toks) == [tokens |-> toks, pos |-> 0]

Parser__init__(toks) ==
    [tokens |-> SelectSeq(toks, LAMBDA t : t.type # "NEWLINE"), pos |-> 0]

\* self.tokens[self.pos]; past the end of the list Python raises IndexError
OutOfRange == [type |-> "IndexError", value |-> NoneValue, line |-> 0, col |-> 0]

P_current(toks, p) == IF p < Len(toks) THEN toks[p + 1] ELSE OutOfRange

_check(toks, p, types) == P_current(toks, p).type \in types

_at_end(toks, p) == P_current(toks, p).type = "EOF"

Ok(p, node) == [exc |-> "none", pos |-> p, node |-> node]

ParseError(toks, p, msg) ==
    [exc  |-> IF p < Len(toks) THEN "ParseError" ELSE "IndexError",
     pos  |-> p,
     msg  |-> msg,
     line |-> P_current(toks, p).line,
     got  |-> P_current(toks, p).type]

\* an _expect that steps over the token it did not expect
_expect_Skipping(toks, p, tt, msg) == Ok(p + 1, P_current(toks, p))

\* _match then raise if None; the node of the result is the token matched
_expect(toks, p, tt, msg) ==
    IF _check(toks, p, {tt}) THEN Ok(p + 1, P_current(toks, p))
    ELSE ParseError(toks, p, msg)

NumberNode(value, ln) == [node |-> "NumberNode", value |-> value, line |-> ln, paren |-> FALSE]
StringNode(value, ln) == [node |-> "StringNode", value |-> value, line |-> ln, paren |-> FALSE]
IdentNode(name, ln) == [node |-> "IdentNode", name |-> name, line |-> ln, paren |-> FALSE]
BinOpNode(left, op, right, ln) ==
    [node |-> "BinOpNode", left |-> left, op |-> op, right |-> right, line |-> ln, paren |-> FALSE]
UnaryOpNode(op, operand, ln) ==
    [node |-> "UnaryOpNode", op |-> op, operand |-> operand, line |-> ln, paren |-> FALSE]
CompareNode(left, op, right, ln) ==
    [node |-> "CompareNode", left |-> left, op |-> op, right |-> right, line |-> ln, paren |-> FALSE]
LogicNode(left, op, right, ln) ==
    [node |-> "LogicNode", left |-> left, op |-> op, right |-> right, line |-> ln, paren |-> FALSE]

RECURSIVE _statement(_, _)
RECURSIVE _if(_, _, _)
RECURSIVE _loop(_, _, _)
RECURSIVE if_then_body(_, _, _)
RECURSIVE if_else_body(_, _, _)
RECURSIVE loop_body(_, _, _)
RECURSIVE _logic(_, _)
RECURSIVE logic_loop(_, _, _)
RECURSIVE _compare(_, _)
RECURSIVE compare_loop(_, _, _)
RECURSIVE _addition(_, _)
RECURSIVE addition_loop(_, _, _)
RECURSIVE _multiply(_, _)
RECURSIVE multiply_loop(_, _, _)
RECURSIVE _unary(_, _)
RECURSIVE _primary(_, _)

\* r, then K on the result of r unless r raised: an exception of a callee
\* leaves the caller at once
Then(r, K(_)) == CHOOSE v \in {IF x.exc # "none" THEN x ELSE K(x) : x \in {r}} : TRUE

(***************************************************************************)
(* Expressions.                                                            *)
(***************************************************************************)
_expr(toks, p) == _logic(toks, p)

_primary(toks, p) ==
    LET tok == P_current(toks, p)
    IN  CASE tok.type = "NUMBER" -> Ok(p + 1, NumberNode(tok.value, tok.line))
          [] tok.type = "STRING" -> Ok(p + 1, StringNode(tok.value, tok.line))
          [] tok.type = "IDENTIFIER" -> Ok(p + 1, IdentNode(tok.value, tok.line))
          [] tok.type = "LPAREN" ->
                Then(_expr(toks, p + 1), LAMBDA inner :
                Then(_expect(toks, inner.pos, "RPAREN", "expected ')'"), LAMBDA close :
                Ok(close.pos, [inner.node EXCEPT !.paren = TRUE])))
          [] OTHER -> ParseError(toks, p, "Unexpected token in expression")

_unary(toks, p) ==
    IF _check(toks, p, {"MINUS"})
    THEN Then(_unary(toks, p + 1), LAMBDA r :
         Ok(r.pos, UnaryOpNode("-", r.node, P_current(toks, p).line)))
    ELSE IF _check(toks, p, {"NOT"})
    THEN Then(_unary(toks, p + 1), LAMBDA r :
         Ok(r.pos, UnaryOpNode("not", r.node, P_current(toks, p).line)))
    ELSE _primary(toks, p)

\* a loop of _multiply that takes all that follows an operator as its right
\* operand: a ** b ** c as a ** (b ** c)
multiply_loop_RightFirst(toks, p, left) ==
    IF _check(toks, p, {"STAR", "SLASH", "PERCENT", "POWER"})
    THEN Then(_multiply(toks, p + 1), LAMBDA r :
         Ok(r.pos, BinOpNode(left, P_current(toks, p).value.s, r.node, left.line)))
    ELSE Ok(p, left)

multiply_loop(toks, p, left) ==
    IF _check(toks, p, {"STAR", "SLASH", "PERCENT", "POWER"})
    THEN Then(_unary(toks, p + 1), LAMBDA r :
         multiply_loop(toks, r.pos,
             BinOpNode(left, P_current(toks, p).value.s, r.node, left.line)))
    ELSE Ok(p, left)

\* a loop of _multiply that takes '+' and '-' as operators of its own
RECURSIVE multiply_loop_AlsoPlus(_, _, _)
multiply_loop_AlsoPlus(toks, p, left) ==
    IF _check(toks, p, {"STAR", "SLASH", "PERCENT", "POWER", "PLUS", "MINUS"})
    THEN Then(_unary(toks, p + 1), LAMBDA r :
         multiply_loop_AlsoPlus(toks, r.pos,
             BinOpNode(left, P_current(toks, p).value.s, r.node, left.line)))
    ELSE Ok(p, left)

_multiply_AlsoPlus(toks, p) ==
    Then(_unary(toks, p), LAMBDA l : multiply_loop_AlsoPlus(toks, l.pos, l.node))

_multiply(toks, p) ==
    Then(_unary(toks, p), LAMBDA l : multiply_loop(toks, l.pos, l.node))

addition_loop(toks, p, left) ==
    IF _check(toks, p, {"PLUS", "MINUS"})
    THEN Then(_multiply(toks, p + 1), LAMBDA r :
         addition_loop(toks, r.pos,
             BinOpNode(left, P_current(toks, p).value.s, r.node, left.line)))
    ELSE Ok(p, left)

_addition(toks, p) ==
    Then(_multiply(toks, p), LAMBDA l : addition_loop(toks, l.pos, l.node))

compare_loop(toks, p, left) ==
    IF _check(toks, p, {"EQ", "NEQ", "GT", "LT", "GTE", "LTE"})
    THEN Then(_addition(toks, p + 1), LAMBDA r :
         compare_loop(toks, r.pos,
             CompareNode(left, P_current(toks, p).value.s, r.node, left.line)))
    ELSE Ok(p, left)

_compare(toks, p) ==
    Then(_addition(toks, p), LAMBDA l : compare_loop(toks, l.pos, l.node))

\* self._current.value.lower() of an AND or OR token
lower_logic(tok) == IF tok.type = "AND" THEN "and" ELSE "or"

logic_loop(toks, p, left) ==
    IF _check(toks, p, {"AND", "OR"})
    THEN Then(_compare(toks, p + 1), LAMBDA r :
         logic_loop(toks, r.pos,
             LogicNode(left, lower_logic(P_current(toks, p)), r.node, left.line)))
    ELSE Ok(p, left)

_logic(toks, p) ==
    Then(_compare(toks, p), LAMBDA l : logic_loop(toks, l.pos, l.node))

(***************************************************************************)
(* Statements.                                                             *)
(***************************************************************************)
\* _say, _yell, _whisper, _confuse, _yeet: the keyword, then one expression
expr_statement(cls, toks, p, ln) ==
    Then(_expr(toks, p + 1), LAMBDA e :
    Ok(e.pos, [node |-> cls, expr |-> e.node, line |-> ln]))

_say(toks, p, ln) == expr_statement("SayNode", toks, p, ln)
_yell(toks, p, ln) == expr_statement("YellNode", toks, p, ln)
_whisper(toks, p, ln) == expr_statement("WhisperNode", toks, p, ln)
_confuse(toks, p, ln) == expr_statement("ConfuseNode", toks, p, ln)
_yeet(toks, p, ln) == expr_statement("YeetNode", toks, p, ln)

_repeat(toks, p, ln) ==
    Then(_expr(toks, p + 1), LAMBDA e :
    Then(_expr(toks, e.pos), LAMBDA c :
    Then(_expect(toks, c.pos, "TIMES", "expected TIMES after count in REPEAT"), LAMBDA t :
    Ok(t.pos, [node |-> "RepeatNode", expr |-> e.node, count |-> c.node, line |-> ln]))))

_set(toks, p, ln) ==
    Then(_expect(toks, p + 1, "IDENTIFIER", "expected variable name after SET"), LAMBDA n :
    Then(_expect(toks, n.pos, "TO", "expected TO after variable name in SET"), LAMBDA t :
    Then(_expr(toks, t.pos), LAMBDA v :
    Ok(v.pos, [node |-> "SetNode", name |-> n.node.value, value |-> v.node, line |-> ln]))))

_modify(toks, p, ln) ==
    Then(_expect(toks, p + 1, "IDENTIFIER", "expected variable name"), LAMBDA n :
    Then(_expect(toks, n.pos, "BY", "expected BY after variable name"), LAMBDA b :
    Then(_expr(toks, b.pos), LAMBDA a :
    Ok(a.pos, [node |-> "ModifyNode", op |-> P_current(toks, p).value,
               name |-> n.node.value, amount |-> a.node, line |-> ln]))))

_wait(toks, p, ln) ==
    Then(_expr(toks, p + 1), LAMBDA e :
    Then(_expect(toks, e.pos, "SECONDS", "expected SECONDS after duration in WAIT"), LAMBDA t :
    Ok(t.pos, [node |-> "WaitNode", seconds |-> e.node, line |-> ln])))

IfNode(condition, then_body, else_body, ln) ==
    [node |-> "IfNode", condition |-> condition, then_body |-> then_body,
     else_body |-> else_body, line |-> ln]

LoopNode(count, body, ln) == [node |-> "LoopNode", count |-> count, body |-> body, line |-> ln]

\* while not self._at_end() and not self._check(TT.ELSE, TT.ENDIF)
if_then_body(toks, p, body) ==
    IF ~_at_end(toks, p) /\ ~_check(toks, p, {"ELSE", "ENDIF"})
    THEN Then(_statement(toks, p), LAMBDA st :
         if_then_body(toks, st.pos, Append(body, st.node)))
    ELSE Ok(p, body)

\* while not self._at_end() and not self._check(TT.ENDIF)
if_else_body(toks, p, body) ==
    IF ~_at_end(toks, p) /\ ~_check(toks, p, {"ENDIF"})
    THEN Then(_statement(toks, p), LAMBDA st :
         if_else_body(toks, st.pos, Append(body, st.node)))
    ELSE Ok(p, body)

\* while not self._at_end() and not self._check(TT.ENDLOOP)
loop_body(toks, p, body) ==
    IF ~_at_end(toks, p) /\ ~_check(toks, p, {"ENDLOOP"})
    THEN Then(_statement(toks, p), LAMBDA st :
         loop_body(toks, st.pos, Append(body, st.node)))
    ELSE Ok(p, body)

\* if self._match(TT.ELSE): the else-body; otherwise no else-body
if_else_part(toks, p) ==
    IF _check(toks, p, {"ELSE"}) THEN if_else_body(toks, p + 1, <<>>) ELSE Ok(p, <<>>)

\* an _if that closes with _match(TT.ENDIF) in place of _expect
_if_EndifOptional(toks, p, ln) ==
    Then(_expr(toks, p + 1), LAMBDA c :
    Then(_expect(toks, c.pos, "THEN", "expected THEN after condition in IF"), LAMBDA t :
    Then(if_then_body(toks, t.pos, <<>>), LAMBDA tb :
    Then(if_else_part(toks, tb.pos), LAMBDA eb :
    Ok(IF _check(toks, eb.pos, {"ENDIF"}) THEN eb.pos + 1 ELSE eb.pos,
       IfNode(c.node, tb.node, eb.node, ln))))))

_if(toks, p, ln) ==
    Then(_expr(toks, p + 1), LAMBDA c :
    Then(_expect(toks, c.pos, "THEN", "expected THEN after condition in IF"), LAMBDA t :
    Then(if_then_body(toks, t.pos, <<>>), LAMBDA tb :
    Then(if_else_part(toks, tb.pos), LAMBDA eb :
    Then(_expect(toks, eb.pos, "ENDIF", "expected ENDIF to close IF block"), LAMBDA e :
    Ok(e.pos, IfNode(c.node, tb.node, eb.node, ln)))))))

\* a _loop whose body ends at, and which is closed by, ENDLOOP or ENDIF
RECURSIVE loop_body_AnyCloser(_, _, _)
loop_body_AnyCloser(toks, p, body) ==
    IF ~_at_end(toks, p) /\ ~_check(toks, p, {"ENDLOOP", "ENDIF"})
    THEN Then(_statement(toks, p), LAMBDA st :
         loop_body_AnyCloser(toks, st.pos, Append(body, st.node)))
    ELSE Ok(p, body)

_loop_AnyCloser(toks, p, ln) ==
    Then(_expr(toks, p + 1), LAMBDA c :
    Then(_expect(toks, c.pos, "TIMES", "expected TIMES after count in LOOP"), LAMBDA t :
    Then(loop_body_AnyCloser(toks, t.pos, <<>>), LAMBDA b :
    IF _check(toks, b.pos, {"ENDLOOP", "ENDIF"})
    THEN Ok(b.pos + 1, LoopNode(c.node, b.node, ln))
    ELSE ParseError(toks, b.pos, "expected ENDLOOP to close LOOP block"))))

_loop(toks, p, ln) ==
    Then(_expr(toks, p + 1), LAMBDA c :
    Then(_expect(toks, c.pos, "TIMES", "expected TIMES after count in LOOP"), LAMBDA t :
    Then(loop_body(toks, t.pos, <<>>), LAMBDA b :
    Then(_expect(toks, b.pos, "ENDLOOP", "expected ENDLOOP to close LOOP block"), LAMBDA e :
    Ok(e.pos, LoopNode(c.node, b.node, ln))))))

\* the statements that are one keyword: self.pos += 1; return XNode(line=line)
KeywordNodes ==
    [tt \in {"BREAKOUT", "DUMP", "STOP", "RICKROLL", "MYSTERY", "OOPS", "FLIP",
             "DICE", "BRUH", "POGGERS"} |->
        CASE tt = "BREAKOUT" -> "BreakoutNode" [] tt = "DUMP" -> "DumpNode"
          [] tt = "STOP" -> "StopNode"         [] tt = "RICKROLL" -> "RickrollNode"
          [] tt = "MYSTERY" -> "MysteryNode"   [] tt = "OOPS" -> "OopsNode"
          [] tt = "FLIP" -> "FlipNode"         [] tt = "DICE" -> "DiceNode"
          [] tt = "BRUH" -> "BruhNode"         [] tt = "POGGERS" -> "PoggersNode"]

\* an unrecognized leading token skipped: the statement is None
unexpected_token_Skipped(toks, p) == Ok(p + 1, NoneValue)

\* an unrecognized leading token left where it is: the statement is None
unexpected_token_Ignored(toks, p) == Ok(p, NoneValue)

\* the raise that ends _statement
unexpected_token(toks, p) == ParseError(toks, p, "Unexpected token")

_statement(toks, p) ==
    LET ln == P_current(toks, p).line
        tt == P_current(toks, p).type
    IN  CASE tt = "SAY" -> _say(toks, p, ln)
          [] tt = "YELL" -> _yell(toks, p, ln)
          [] tt = "WHISPER" -> _whisper(toks, p, ln)
          [] tt = "CONFUSE" -> _confuse(toks, p, ln)
          [] tt = "REPEAT" -> _repeat(toks, p, ln)
          [] tt = "YEET" -> _yeet(toks, p, ln)
          [] tt = "SET" -> _set(toks, p, ln)
          [] tt \in {"ADD", "SUB", "MUL", "DIV"} -> _modify(toks, p, ln)
          [] tt = "IF" -> _if(toks, p, ln)
          [] tt = "LOOP" -> _loop(toks, p, ln)
          [] tt = "WAIT" -> _wait(toks, p, ln)
          [] tt \in DOMAIN KeywordNodes -> Ok(p + 1, [node |-> KeywordNodes[tt], line |-> ln])
          [] OTHER -> unexpected_token(toks, p)

ProgramNode(body, ln) == [node |-> "ProgramNode", body |-> body, line |-> ln]

(***************************************************************************)
(* Parser(tokens).parse() as a state machine: the constructor, then one    *)
(* step per iteration of the loop of parse.                                *)
(***************************************************************************)
ParserNew ==
    /\ pstatus = "new"
    /\ LET o == Parser__init__(pinput)
       IN  /\ ptokens' = o.tokens
           /\ ppos' = o.pos
    /\ pstatus' = "parsing"
    /\ UNCHANGED <<pinput, pbody, presult>>
    /\ UNCHANGED <<lexvars, envvars, runvars, replvars, bracevars>>

\* stmt = self._statement(); if stmt is not None: body.append(stmt)
ParseStatement ==
    /\ pstatus = "parsing"
    /\ ~_at_end(ptokens, ppos)
    /\ \E st \in {_statement(ptokens, ppos)} :
           /\ st.exc = "none"
           /\ ppos' = st.pos
           /\ pbody' = IF st.node # NoneValue THEN Append(pbody, st.node) ELSE pbody
    /\ UNCHANGED <<pinput, ptokens, pstatus, presult>>
    /\ UNCHANGED <<lexvars, envvars, runvars, replvars, bracevars>>

\* an exception of _statement leaves parse()
ParseRaise ==
    /\ pstatus = "parsing"
    /\ ~_at_end(ptokens, ppos)
    /\ \E st \in {_statement(ptokens, ppos)} :
           /\ st.exc # "none"
           /\ ppos' = st.pos
           /\ pstatus' = st.exc
           /\ presult' = st
    /\ UNCHANGED <<pinput, ptokens, pbody>>
    /\ UNCHANGED <<lexvars, envvars, runvars, replvars, bracevars>>

\* return ProgramNode(body=body, line=0)
ParseReturn ==
    /\ pstatus = "parsing"
    /\ _at_end(ptokens, ppos)
    /\ pstatus' = "returned"
    /\ presult' = ProgramNode(pbody, 0)
    /\ UNCHANGED <<pinput, ptokens, ppos, pbody>>
    /\ UNCHANGED <<lexvars, envvars, runvars, replvars, bracevars>>

\* Parser(toks).parse() in one piece: the exception, or the ProgramNode
RECURSIVE parse_loop(_, _, _)
parse_loop(toks, p, body) ==
    IF ~_at_end(toks, p)
    THEN Then(_statement(toks, p), LAMBDA st :
         parse_loop(toks, st.pos,
                    IF st.node # NoneValue THEN Append(body, st.node) ELSE body))
    ELSE Ok(p, ProgramNode(body, 0))

parse(toks) == LET o == Parser__init__(toks) IN parse_loop(o.tokens, o.pos, <<>>)


(***************************************************************************)
(* Token lists the parser is run on, as the lexer builds them: the types   *)
(* of the tokens, EOF last, each token on the line its NEWLINE             *)
(* predecessors put it on.                                                 *)
(***************************************************************************)
OperatorText ==
    [tt \in {"PLUS", "MINUS", "STAR", "SLASH", "PERCENT", "POWER", "EQ", "NEQ",
             "GT", "LT", "GTE", "LTE", "LPAREN", "RPAREN"} |->
        CASE tt = "PLUS" -> "+"    [] tt = "MINUS" -> "-"  [] tt = "STAR" -> "*"
          [] tt = "SLASH" -> "/"   [] tt = "PERCENT" -> "%" [] tt = "POWER" -> "**"
          [] tt = "EQ" -> "=="     [] tt = "NEQ" -> "!="   [] tt = "GT" -> ">"
          [] tt = "LT" -> "<"      [] tt = "GTE" -> ">="   [] tt = "LTE" -> "<="
          [] tt = "LPAREN" -> "("  [] tt = "RPAREN" -> ")"]

ValueOf(tt) ==
    CASE tt = "NUMBER" -> IntValue(1)
      [] tt = "STRING" -> StrValue("s")
      [] tt = "IDENTIFIER" -> StrValue("a")
      [] tt \in DOMAIN OperatorText -> StrValue(OperatorText[tt])
      [] tt \in KEYWORDS -> StrValue(tt)
      [] OTHER -> NoneValue

MkTokens(types) ==
    LET all == Append(types, "EOF")
    IN  [i \in 1..Len(all) |->
            Token(all[i], ValueOf(all[i]),
                  1 + Cardinality({j \in 1..(i - 1) : all[j] = "NEWLINE"}), i)]

RECURSIVE Flatten(_)
Flatten(chunks) == IF chunks = <<>> THEN <<>> ELSE Head(chunks) \o Flatten(Tail(chunks))

\* blocks: openers with their condition or count, closers, ELSE, a simple
\* statement and line breaks, in any order
BlockChunks ==
    {<<"IF", "IDENTIFIER", "THEN">>, <<"ELSE">>, <<"ENDIF">>,
     <<"LOOP", "NUMBER", "TIMES">>, <<"ENDLOOP">>, <<"SAY", "IDENTIFIER">>,
     <<"NEWLINE">>}

BlockInputs == {Flatten(c) : c \in SeqsUpTo(BlockChunks, MaxBlockChunks)}

\* SAY followed by any string of operands and operators of all four levels
ExprTypes == {"IDENTIFIER", "MINUS", "STAR", "EQ", "AND", "NOT"}

ExprInputs == {<<"SAY">> \o e : e \in SeqsUpTo(ExprTypes, MaxExprLen)}

\* SAY followed by operands and operators with parentheses
ParenChunks ==
    {<<"LPAREN", "IDENTIFIER">>, <<"IDENTIFIER", "RPAREN">>, <<"PLUS">>, <<"STAR">>,
     <<"IDENTIFIER">>}

ParenInputs == {<<"SAY">> \o Flatten(c) : c \in SeqsUpTo(ParenChunks, MaxParenChunks)}

\* a statement broken over lines at any token
LineTypes == {"SAY", "IDENTIFIER", "PLUS", "NEWLINE"}

LineInputs == SeqsUpTo(LineTypes, MaxExprLen)

\* every token type in statement position: at the top level and in the
\* bodies of IF, ELSE and LOOP, followed by what a statement may go on with
StatementPrefixes ==
    {<<>>, <<"IF", "IDENTIFIER", "THEN">>, <<"IF", "IDENTIFIER", "THEN", "ELSE">>,
     <<"LOOP", "NUMBER", "TIMES">>}

StatementSuffixes ==
    {<<>>, <<"IDENTIFIER">>, <<"IDENTIFIER", "TO", "NUMBER">>,
     <<"IDENTIFIER", "BY", "NUMBER">>, <<"STRING", "NUMBER", "TIMES">>,
     <<"NUMBER", "SECONDS">>}

StatementInputs ==
    {pre \o <<tt>> \o suf :
        pre \in StatementPrefixes, tt \in TT \ {"EOF"}, suf \in StatementSuffixes}

\* the binary operators by precedence level, lowest first
BinaryOperators ==
    <<{"AND", "OR"}, {"EQ", "NEQ", "GT", "LT", "GTE", "LTE"}, {"PLUS", "MINUS"},
      {"STAR", "SLASH", "PERCENT", "POWER"}>>

\* SAY a op1 1 op2 "s" with any two binary operators
ChainInputs ==
    {<<"SAY", "IDENTIFIER", o1, "NUMBER", o2, "STRING">> :
        o1 \in UNION Range(BinaryOperators), o2 \in UNION Range(BinaryOperators)}

ParserInputs ==
    BlockInputs \cup ExprInputs \cup ParenInputs \cup LineInputs \cup StatementInputs
    \cup ChainInputs

LexerIdle ==
    /\ source = <<>>
    /\ pos = 0
    /\ line = 1
    /\ col = 1
    /\ tokens = <<>>
    /\ lstatus = "idle"
    /\ run = 0
    /\ prev = NoneValue

ParInit ==
    /\ \E types \in ParserInputs : pinput = MkTokens(types)
    /\ ptokens = <<>>
    /\ ppos = 0
    /\ pbody = <<>>
    /\ pstatus = "new"
    /\ presult = NoneValue
    /\ LexerIdle
    /\ EnvIdle
    /\ RunIdle
    /\ ReplIdle
    /\ BraceIdle

ParNext ==
    \/ ParserNew
    \/ ParseStatement
    \/ ParseRaise
    \/ ParseReturn

ParSpec == ParInit /\ [][ParNext]_vars

\* blocks, statements and sums on one line, in any order
FairChunks == (BlockChunks \ {<<"NEWLINE">>}) \cup {<<"PLUS", "IDENTIFIER">>}

FairInputs == {Flatten(c) : c \in SeqsUpTo(FairChunks, MaxFairChunks)}

ParFairInit ==
    /\ \E types \in FairInputs : pinput = MkTokens(types)
    /\ ptokens = <<>>
    /\ ppos = 0
    /\ pbody = <<>>
    /\ pstatus = "new"
    /\ presult = NoneValue
    /\ LexerIdle
    /\ EnvIdle
    /\ RunIdle
    /\ ReplIdle
    /\ BraceIdle

\* parse() is one sequential loop: while it can take a step it takes one
ParFairSpec == ParFairInit /\ [][ParNext]_vars /\ WF_vars(ParNext)


(***************************************************************************)
(* Properties of the parser.                                               *)
(***************************************************************************)
ParserDone == pstatus \in {"returned", "ParseError", "IndexError"}

TypesOf(toks) == [i \in DOMAIN toks |-> toks[i].type]

\* the token types handed to the parser, without the closing EOF
InputTypes == SubSeq(TypesOf(pinput), 1, Len(pinput) - 1)

Count(types, tt) == Cardinality({i \in DOMAIN types : types[i] = tt})

\* the fields of a node that hold one node, and those that hold a body
NodeFields(n) ==
    {"left", "right", "operand", "expr", "count", "condition", "amount", "seconds"}
    \cup (IF n.node = "SetNode" THEN {"value"} ELSE {})

BodyFields == {"body", "then_body", "else_body"}

Children(n) ==
    {n[f] : f \in DOMAIN n \cap NodeFields(n)}
    \cup UNION {Range(n[f]) : f \in DOMAIN n \cap BodyFields}

\* a node with the line of every node in it set to 0
RECURSIVE EraseLines(_)
EraseLines(n) ==
    [f \in DOMAIN n |->
        IF f = "line" THEN 0
        ELSE IF f \in NodeFields(n) THEN EraseLines(n[f])
        ELSE IF f \in BodyFields THEN [i \in DOMAIN n[f] |-> EraseLines(n[f][i])]
        ELSE n[f]]

\* the same tokens with no line break at all, and with one after every token
NoBreaks(types) == SelectSeq(types, LAMBDA tt : tt # "NEWLINE")

RECURSIVE BreakEverywhere(_)
BreakEverywhere(types) ==
    IF types = <<>> THEN <<>>
    ELSE <<Head(types), "NEWLINE">> \o BreakEverywhere(Tail(types))

\* the outcome r of a parse is the outcome the parser of this state reached
SameOutcome(r) ==
    IF pstatus = "returned"
    THEN r.exc = "none" /\ EraseLines(r.node) = EraseLines(presult)
    ELSE r.exc = pstatus

\* C6: the outcome of the parser does not depend on NEWLINE tokens: the
\* token list with every NEWLINE removed, and the one with a NEWLINE put
\* after every other token, give the same AST up to line fields, or a
\* ParseError as well.
C6_NewlinesIgnored ==
    ParserDone =>
        /\ SameOutcome(parse(MkTokens(NoBreaks(InputTypes))))
        /\ SameOutcome(parse(MkTokens(BreakEverywhere(NoBreaks(InputTypes)))))

\* a statement broken after its keyword, and two statements on one line
C6_Witness ==
    /\ pstatus = "returned"
    /\ InputTypes = <<"SAY", "NEWLINE", "IDENTIFIER", "SAY", "IDENTIFIER">>
    /\ Len(pbody) = 2
    /\ pbody[1].line = 1
    /\ pbody[1].expr.line = 2

\* C7: when the token list has an IF without an ENDIF or a LOOP without an
\* ENDLOOP, parse raises ParseError and returns no ProgramNode, whatever the
\* depth of the block left open.
C7_UnclosedBlockRaises ==
    (/\ ParserDone
     /\ \/ Count(TypesOf(ptokens), "IF") > Count(TypesOf(ptokens), "ENDIF")
        \/ Count(TypesOf(ptokens), "LOOP") > Count(TypesOf(ptokens), "ENDLOOP"))
    => pstatus = "ParseError"

\* EOF reached inside a LOOP inside an IF
C7_Witness ==
    /\ pstatus = "ParseError"
    /\ TypesOf(ptokens) = <<"IF", "IDENTIFIER", "THEN", "LOOP", "NUMBER", "TIMES",
                            "SAY", "IDENTIFIER", "EOF">>
    /\ presult.got = "EOF"
    /\ presult.msg = "expected ENDLOOP to close LOOP block"

\* the token types that open no statement
NotStatementOpeners ==
    {"NUMBER", "STRING", "IDENTIFIER"} \cup DOMAIN OperatorText
    \cup {"TO", "BY", "TIMES", "THEN", "SECONDS", "AND", "OR", "NOT", "ELSE",
          "ENDIF", "ENDLOOP"}

\* C8: with a token that opens no statement as the current token,
\* _statement raises ParseError and leaves the cursor on that token, at
\* every position of the token list.
C8_UnexpectedTokenRaises ==
    pstatus # "new" =>
        \A p \in 0..(Len(ptokens) - 1) :
            ptokens[p + 1].type \in NotStatementOpeners =>
                /\ _statement(ptokens, p).exc = "ParseError"
                /\ _statement(ptokens, p).pos = p

\* an ENDLOOP met in the body of an IF
C8_Witness ==
    /\ pstatus = "ParseError"
    /\ presult.msg = "Unexpected token"
    /\ presult.got = "ENDLOOP"
    /\ ppos = 3
    /\ ptokens[1].type = "IF"

\* the precedence level of an expression node, lowest first
Level(n) ==
    CASE n.node = "LogicNode" -> 1
      [] n.node = "CompareNode" -> 2
      [] n.node = "BinOpNode" -> IF n.op \in {"+", "-"} THEN 3 ELSE 4
      [] n.node = "UnaryOpNode" -> 5
      [] OTHER -> 6

OperandOk(parent, child) == child.paren \/ Level(child) >= Level(parent)

RECURSIVE LevelsOk(_)
LevelsOk(n) ==
    /\ n.node \in {"LogicNode", "CompareNode", "BinOpNode"} =>
          OperandOk(n, n.left) /\ OperandOk(n, n.right)
    /\ n.node = "UnaryOpNode" => OperandOk(n, n.operand)
    /\ \A c \in Children(n) : LevelsOk(c)

\* C9: in every expression built, an operand of a binary node (and of a
\* unary node) that was not written in parentheses is not of a lower level
\* than the node: logic < comparison < additive < multiplicative < unary <
\* primary.  In a + a * a the product is the right child of the sum; in
\* NOT a == a the NOT applies to the first a only.
C9_PrecedenceLevels ==
    /\ \A i \in DOMAIN pbody : LevelsOk(pbody[i])
    /\ (pstatus = "returned" /\ InputTypes =
            <<"SAY", "IDENTIFIER", "PLUS", "IDENTIFIER", "STAR", "IDENTIFIER">>)
        => /\ pbody[1].expr.node = "BinOpNode" /\ pbody[1].expr.op = "+"
           /\ pbody[1].expr.left.node = "IdentNode"
           /\ pbody[1].expr.right.node = "BinOpNode" /\ pbody[1].expr.right.op = "*"
    /\ (pstatus = "returned" /\ InputTypes =
            <<"SAY", "NOT", "IDENTIFIER", "EQ", "IDENTIFIER">>)
        => /\ pbody[1].expr.node = "CompareNode"
           /\ pbody[1].expr.left.node = "UnaryOpNode"
           /\ pbody[1].expr.left.operand.node = "IdentNode"

\* a * (a + a): a sum under a product, written in parentheses
C9_Witness ==
    /\ pstatus = "returned"
    /\ InputTypes = <<"SAY", "IDENTIFIER", "STAR", "LPAREN", "IDENTIFIER", "PLUS",
                      "IDENTIFIER", "RPAREN">>
    /\ pbody[1].expr.op = "*"
    /\ pbody[1].expr.right.op = "+"
    /\ pbody[1].expr.right.paren

\* the keyword a statement node was opened by
OpenerOf(n) ==
    CASE n.node = "SayNode" -> "SAY"          [] n.node = "YellNode" -> "YELL"
      [] n.node = "WhisperNode" -> "WHISPER"  [] n.node = "ConfuseNode" -> "CONFUSE"
      [] n.node = "RepeatNode" -> "REPEAT"    [] n.node = "YeetNode" -> "YEET"
      [] n.node = "SetNode" -> "SET"          [] n.node = "ModifyNode" -> n.op.s
      [] n.node = "IfNode" -> "IF"            [] n.node = "LoopNode" -> "LOOP"
      [] n.node = "WaitNode" -> "WAIT"
      [] OTHER -> CHOOSE tt \in DOMAIN KeywordNodes : KeywordNodes[tt] = n.node

\* the block structure of a body written back as keywords, in order
RECURSIVE Skeleton(_)
Skeleton(body) ==
    IF body = <<>> THEN <<>>
    ELSE LET n == Head(body)
             own == CASE n.node = "IfNode" ->
                            <<"IF">> \o Skeleton(n.then_body)
                            \o (IF n.else_body = <<>> THEN <<>>
                                ELSE <<"ELSE">> \o Skeleton(n.else_body))
                            \o <<"ENDIF">>
                      [] n.node = "LoopNode" -> <<"LOOP">> \o Skeleton(n.body) \o <<"ENDLOOP">>
                      [] OTHER -> <<OpenerOf(n)>>
         IN  own \o Skeleton(Tail(body))

StructureTypes == (KEYWORDS \ NotStatementOpeners) \cup {"ELSE", "ENDIF", "ENDLOOP"}

\* the structure keywords of a token list, in order, less every ELSE that
\* has nothing between it and its ENDIF
KeywordSkeleton(types) ==
    LET ks == SelectSeq(types, LAMBDA tt : tt \in StructureTypes)
        keep == {i \in DOMAIN ks : ~(ks[i] = "ELSE" /\ i < Len(ks) /\ ks[i + 1] = "ENDIF")}
        nth(k) == CHOOSE i \in keep : Cardinality({j \in keep : j < i}) = k - 1
    IN  [k \in 1..Cardinality(keep) |-> ks[nth(k)]]

\* Matching of openers and closers, read off the token list with a stack of
\* the open blocks: a closer must be of the kind of the innermost open
\* block, an ELSE must stand in an IF that has had none, and nothing may be
\* left open at the end.
RECURSIVE WellMatched(_, _)
WellMatched(types, stack) ==
    IF types = <<>> THEN stack = <<>>
    ELSE LET tt == Head(types)
             rest == Tail(types)
             top == IF stack = <<>> THEN "none" ELSE stack[Len(stack)]
             popped == SubSeq(stack, 1, Len(stack) - 1)
         IN  CASE tt = "IF" -> WellMatched(rest, Append(stack, "then"))
               [] tt = "LOOP" -> WellMatched(rest, Append(stack, "loop"))
               [] tt = "ELSE" -> top = "then" /\ WellMatched(rest, Append(popped, "else"))
               [] tt = "ENDIF" -> top \in {"then", "else"} /\ WellMatched(rest, popped)
               [] tt = "ENDLOOP" -> top = "loop" /\ WellMatched(rest, popped)
               [] OTHER -> WellMatched(rest, stack)

\* C10: blocks nest: the AST returned has the block structure of the token
\* list, each closer closing the innermost open block and the statements of
\* a block in source order in its body (then-body before ELSE, else-body
\* after it, empty without ELSE); a closer of the wrong kind, a second ELSE
\* in one IF or a block left open raises ParseError.
C10_BlocksNest ==
    /\ pstatus = "returned" =>
          Skeleton(presult.body) = KeywordSkeleton(TypesOf(ptokens))
    /\ (ParserDone /\ ~WellMatched(TypesOf(ptokens), <<>>)) => pstatus = "ParseError"

\* a LOOP closed inside the then-body of an IF that has an ELSE
C10_Witness ==
    /\ pstatus = "returned"
    /\ Len(presult.body) = 1
    /\ presult.body[1].node = "IfNode"
    /\ Len(presult.body[1].then_body) = 1
    /\ presult.body[1].then_body[1].node = "LoopNode"
    /\ presult.body[1].else_body = <<>>
    /\ Count(TypesOf(ptokens), "ELSE") = 1


(***************************************************************************)
(* Environment (src/interpreter.py): a scope is an object with a dict      *)
(* vars and a parent.  vars is a function from the names bound to their    *)
(* values.                                                                 *)
(***************************************************************************)
MaxEnvs == 3

Names == {"x", "y"}

Values == {IntValue(1), IntValue(2)}

NoVars == [n \in {} |-> NoneValue]

Environment__init__(parent) == [vars |-> NoVars, parent |-> parent]

\* a get that looks into the dict of the parent in place of asking the parent
Environment_get_OneLevel(es, e, name) ==
    IF name \in DOMAIN es[e].vars THEN [exc |-> "none", value |-> es[e].vars[name]]
    ELSE IF es[e].parent # 0 /\ name \in DOMAIN es[es[e].parent].vars
    THEN [exc |-> "none", value |-> es[es[e].parent].vars[name]]
    ELSE [exc |-> "NameError", value |-> NoneValue]

RECURSIVE Environment_get(_, _, _)
Environment_get(es, e, name) ==
    IF name \in DOMAIN es[e].vars THEN [exc |-> "none", value |-> es[e].vars[name]]
    ELSE IF es[e].parent # 0 THEN Environment_get(es, es[e].parent, name)
    ELSE [exc |-> "NameError", value |-> NoneValue]

\* self.vars[name] = value
Bind(scope, name, value) ==
    [scope EXCEPT !.vars = [n \in DOMAIN scope.vars \cup {name} |->
                                IF n = name THEN value ELSE scope.vars[n]]]

RECURSIVE Environment_set_global(_, _, _, _)
Environment_set_global(es, e, name, value) ==
    IF es[e].parent = 0 THEN [es EXCEPT ![e] = Bind(es[e], name, value)]
    ELSE Environment_set_global(es, es[e].parent, name, value)

\* a set that writes where set_global writes
Environment_set_AsGlobal(es, e, name, value) == Environment_set_global(es, e, name, value)

Environment_set(es, e, name, value) == [es EXCEPT ![e] = Bind(es[e], name, value)]

(***************************************************************************)
(* The calls on Environment objects, in any order: the constructor with    *)
(* the root or the newest object as parent, set, set_global and get.       *)
(***************************************************************************)
EnvNew ==
    /\ Len(envs) < MaxEnvs
    /\ \E parent \in {1, Len(envs)} :
          /\ envs' = Append(envs, Environment__init__(parent))
          /\ ecall' = [op |-> "init", env |-> Len(envs) + 1, name |-> "", value |-> NoneValue,
                       exc |-> "none", result |-> NoneValue]
    /\ UNCHANGED <<lexvars, parvars, runvars, replvars, bracevars>>

EnvSet ==
    /\ \E e \in DOMAIN envs, name \in Names, value \in Values :
          /\ envs' = Environment_set(envs, e, name, value)
          /\ ecall' = [op |-> "set", env |-> e, name |-> name, value |-> value,
                       exc |-> "none", result |-> NoneValue]
    /\ UNCHANGED <<lexvars, parvars, runvars, replvars, bracevars>>

EnvSetGlobal ==
    /\ \E e \in DOMAIN envs, name \in Names, value \in Values :
          /\ envs' = Environment_set_global(envs, e, name, value)
          /\ ecall' = [op |-> "set_global", env |-> e, name |-> name, value |-> value,
                       exc |-> "none", result |-> NoneValue]
    /\ UNCHANGED <<lexvars, parvars, runvars, replvars, bracevars>>

EnvGet ==
    /\ \E e \in DOMAIN envs, name \in Names :
          LET r == Environment_get(envs, e, name)
          IN  ecall' = [op |-> "get", env |-> e, name |-> name, value |-> NoneValue,
                        exc |-> r.exc, result |-> r.value]
    /\ UNCHANGED envs
    /\ UNCHANGED <<lexvars, parvars, runvars, replvars, bracevars>>

\* Environment(): the root scope
EnvInit ==
    /\ envs = <<Environment__init__(0)>>
    /\ ecall = [op |-> "init", env |-> 1, name |-> "", value |-> NoneValue,
                exc |-> "none", result |-> NoneValue]
    /\ LexerIdle
    /\ ParserIdle
    /\ RunIdle
    /\ ReplIdle
    /\ BraceIdle

EnvNext ==
    \/ EnvNew
    \/ EnvSet
    \/ EnvSetGlobal
    \/ EnvGet

EnvSpec == EnvInit /\ [][EnvNext]_vars

(***************************************************************************)
(* Properties of Environment.                                              *)
(***************************************************************************)
\* the scopes from e up to the root, nearest first
RECURSIVE ParentChain(_, _)
ParentChain(es, e) ==
    IF es[e].parent = 0 THEN <<e>> ELSE <<e>> \o ParentChain(es, es[e].parent)

Binders(es, e, name) ==
    {i \in DOMAIN ParentChain(es, e) : name \in DOMAIN es[ParentChain(es, e)[i]].vars}

Nearest(es, e, name) ==
    ParentChain(es, e)[CHOOSE i \in Binders(es, e, name) :
                           \A j \in Binders(es, e, name) : i <= j]

\* C11: get returns the binding of the nearest scope of the parent chain,
\* the scope itself first, that binds the name, and raises only when no
\* scope of the chain up to the root binds it.
C11_LookupNearestBinding ==
    (ecall # NoneValue /\ ecall.op = "get") =>
        IF Binders(envs, ecall.env, ecall.name) = {}
        THEN ecall.exc = "NameError"
        ELSE /\ ecall.exc = "none"
             /\ ecall.result = envs[Nearest(envs, ecall.env, ecall.name)].vars[ecall.name]

\* a name bound two scopes up only, and one bound with another value in
\* between that hides the binding of the root
C11_Witness ==
    /\ Len(envs) = 3
    /\ envs[2].parent = 1 /\ envs[3].parent = 2
    /\ envs[1].vars = [n \in {"x", "y"} |-> IntValue(1)]
    /\ envs[2].vars = [n \in {"x"} |-> IntValue(2)]
    /\ envs[3].vars = NoVars
    /\ ecall.op = "get" /\ ecall.env = 3 /\ ecall.name = "y"
    /\ ecall.result = IntValue(1)

\* C12: set writes the binding into the scope it is called on and nowhere
\* else: every other scope, its ancestors among them, is unchanged, an
\* outer binding of the name keeps its value, and a lookup from the scope
\* now finds the new value.
C12_DeclareInnermostOnly ==
    [][(ecall'.op = "set") =>
          /\ Len(envs') = Len(envs)
          /\ \A i \in DOMAIN envs : i # ecall'.env => envs'[i] = envs[i]
          /\ envs'[ecall'.env].parent = envs[ecall'.env].parent
          /\ DOMAIN envs'[ecall'.env].vars = DOMAIN envs[ecall'.env].vars \cup {ecall'.name}
          /\ \A n \in DOMAIN envs[ecall'.env].vars \ {ecall'.name} :
                envs'[ecall'.env].vars[n] = envs[ecall'.env].vars[n]
          /\ envs'[ecall'.env].vars[ecall'.name] = ecall'.value
          /\ Environment_get(envs', ecall'.env, ecall'.name).value = ecall'.value
      ]_vars

\* a set in a child scope of a name its parent binds with another value
C12_Witness ==
    /\ ecall.op = "set"
    /\ envs[ecall.env].parent # 0
    /\ ecall.name \in DOMAIN envs[envs[ecall.env].parent].vars
    /\ envs[envs[ecall.env].parent].vars[ecall.name] # ecall.value
    /\ envs[ecall.env].vars[ecall.name] = ecall.value


(***************************************************************************)
(* The interpreter of the AST of src/ast_nodes.py: a tree-walking          *)
(* evaluator over a chain of Environment objects.  Values are numbers      *)
(* (integer or floating), strings and booleans; a floating value is kept   *)
(* as the fraction num/den in lowest terms, den > 0.                       *)
(***************************************************************************)
BoolValue(b) == [k |-> "bool", b |-> b]

\* the two mathematical constants of the root scope, values not computed with
ConstValue(name) == [k |-> "const", name |-> name]

Abs(n) == IF n < 0 THEN 0 - n ELSE n

RECURSIVE GCD(_, _)
GCD(a, b) == IF b = 0 THEN a ELSE GCD(b, a % b)

FloatValue(num, den) ==
    LET g == GCD(Abs(num), Abs(den))
        sgn == IF den < 0 THEN 0 - 1 ELSE 1
    IN  [k |-> "float", num |-> (sgn * num) \div g, den |-> (sgn * den) \div g]

RECURSIVE Pow(_, _)
Pow(a, n) == IF n = 0 THEN 1 ELSE a * Pow(a, n - 1)

\* the value of a NUMBER token as a value of the interpreter
NumberValue(v) ==
    IF v.k = "float" THEN FloatValue(v.mant, Pow(10, v.scale)) ELSE v

IsNumber(v) == v.k \in {"int", "float", "bool"}

Num(v) == CASE v.k = "int" -> v.n
            [] v.k = "bool" -> IF v.b THEN 1 ELSE 0
            [] v.k = "float" -> v.num

Den(v) == IF v.k = "float" THEN v.den ELSE 1

Truthy(v) ==
    CASE v.k = "bool" -> v.b
      [] v.k = "int" -> v.n # 0
      [] v.k = "float" -> v.num # 0
      [] v.k = "str" -> v.s # ""
      [] OTHER -> TRUE

Value(v) == [exc |-> "none", value |-> v]

RuntimeError_(ln, msg) == [exc |-> "RuntimeError_", line |-> ln, msg |-> msg]

\* the floor of a / b and the remainder with the sign of b, b # 0
FloorDiv(a, b) == IF b > 0 THEN a \div b ELSE (0 - a) \div (0 - b)

FloorMod(a, b) == a - b * FloorDiv(a, b)

\* a division that returns a value for a zero right operand as well
Arith_NoZeroCheck(op, l, r, ln) ==
    IF op = "+" /\ l.k = "str" /\ r.k = "str" THEN Value(StrValue(l.s \o r.s))
    ELSE IF ~IsNumber(l) \/ ~IsNumber(r) THEN RuntimeError_(ln, "type mismatch")
    ELSE IF op \in {"/", "%"} /\ Num(r) = 0 THEN Value(IntValue(0))
    ELSE LET a == Num(l)  b == Den(l)  c == Num(r)  d == Den(r)
             float == l.k = "float" \/ r.k = "float" \/ op = "/"
             number(n, m) == IF float THEN Value(FloatValue(n, m)) ELSE Value(IntValue(n))
         IN  CASE op = "+" -> number(a * d + c * b, b * d)
               [] op = "-" -> number(a * d - c * b, b * d)
               [] op = "*" -> number(a * c, b * d)
               [] op = "/" -> number(a * d, b * c)
               [] op = "%" /\ ~float -> Value(IntValue(FloorMod(a, c)))
               [] op = "**" /\ ~float /\ c >= 0 -> Value(IntValue(Pow(a, c)))
               [] OTHER -> [exc |-> "unmodelled"]

\* + - * / % ** on two values: native numeric semantics, a zero right
\* operand of a division raises division by zero, operands that do not fit
\* the operator raise a type mismatch
Arith(op, l, r, ln) ==
    IF op = "+" /\ l.k = "str" /\ r.k = "str" THEN Value(StrValue(l.s \o r.s))
    ELSE IF ~IsNumber(l) \/ ~IsNumber(r) THEN RuntimeError_(ln, "type mismatch")
    ELSE IF op \in {"/", "%"} /\ Num(r) = 0 THEN RuntimeError_(ln, "division by zero")
    ELSE LET a == Num(l)  b == Den(l)  c == Num(r)  d == Den(r)
             float == l.k = "float" \/ r.k = "float" \/ op = "/"
             number(n, m) == IF float THEN Value(FloatValue(n, m)) ELSE Value(IntValue(n))
         IN  CASE op = "+" -> number(a * d + c * b, b * d)
               [] op = "-" -> number(a * d - c * b, b * d)
               [] op = "*" -> number(a * c, b * d)
               [] op = "/" -> number(a * d, b * c)
               [] op = "%" /\ ~float -> Value(IntValue(FloorMod(a, c)))
               [] op = "**" /\ ~float /\ c >= 0 -> Value(IntValue(Pow(a, c)))
               [] OTHER -> [exc |-> "unmodelled"]

\* == != > < >= <= on two values: native equality and ordering
Compare(op, l, r, ln) ==
    IF IsNumber(l) /\ IsNumber(r)
    THEN LET x == Num(l) * Den(r)
             y == Num(r) * Den(l)
         IN  Value(BoolValue(CASE op = "==" -> x = y  [] op = "!=" -> x # y
                               [] op = ">" -> x > y   [] op = "<" -> x < y
                               [] op = ">=" -> x >= y [] op = "<=" -> x <= y))
    ELSE IF op = "==" THEN Value(BoolValue(l = r))
    ELSE IF op = "!=" THEN Value(BoolValue(l # r))
    ELSE RuntimeError_(ln, "type mismatch")

\* a lookup that fails becomes the runtime error of an undeclared variable
lookup(es, e, name, ln) ==
    LET r == Environment_get(es, e, name)
    IN  IF r.exc = "none" THEN Value(r.value)
        ELSE RuntimeError_(ln, "undefined variable")

RECURSIVE evaluate(_, _, _, _)

\* AND and OR with both operands evaluated before they are combined
evaluate_logic_Eager(es, e, n, ln) ==
    Then(evaluate(es, e, n.left, ln), LAMBDA l :
    Then(evaluate(es, e, n.right, ln), LAMBDA r :
    Value(BoolValue(IF n.op = "and" THEN Truthy(l.value) /\ Truthy(r.value)
                    ELSE Truthy(l.value) \/ Truthy(r.value)))))

\* AND and OR: the right operand is evaluated only if the left one does not
\* decide; the result is the truthiness of the operands combined
evaluate_logic(es, e, n, ln) ==
    Then(evaluate(es, e, n.left, ln), LAMBDA l :
    IF n.op = "and" /\ ~Truthy(l.value) THEN Value(BoolValue(FALSE))
    ELSE IF n.op = "or" /\ Truthy(l.value) THEN Value(BoolValue(TRUE))
    ELSE Then(evaluate(es, e, n.right, ln), LAMBDA r : Value(BoolValue(Truthy(r.value)))))

\* the value of expression n in scope e, for the statement of line ln
evaluate(es, e, n, ln) ==
    CASE n.node = "NumberNode" -> Value(NumberValue(n.value))
      [] n.node = "StringNode" -> Value(n.value)
      [] n.node = "IdentNode" -> lookup(es, e, n.name.s, ln)
      [] n.node = "BinOpNode" ->
            Then(evaluate(es, e, n.left, ln), LAMBDA l :
            Then(evaluate(es, e, n.right, ln), LAMBDA r :
            Arith(n.op, l.value, r.value, ln)))
      [] n.node = "UnaryOpNode" ->
            Then(evaluate(es, e, n.operand, ln), LAMBDA v :
            IF n.op = "not" THEN Value(BoolValue(~Truthy(v.value)))
            ELSE Arith("-", IntValue(0), v.value, ln))
      [] n.node = "CompareNode" ->
            Then(evaluate(es, e, n.left, ln), LAMBDA l :
            Then(evaluate(es, e, n.right, ln), LAMBDA r :
            Compare(n.op, l.value, r.value, ln)))
      [] n.node = "LogicNode" -> evaluate_logic(es, e, n, ln)


(***************************************************************************)
(* Statements.  The state of a run is st = [envs, out, log]; executing a   *)
(* statement in scope e returns the state it leaves and how it ended:      *)
(*   ctl = "normal", "break" (a loop-exit on its way to its loop), "stop"  *)
(*   (program-terminate) or "error" (err holds the RuntimeError_).         *)
(***************************************************************************)
\* an error is kept with the number of outputs made when it was raised
Ended(st, ctl, err) ==
    [ctl |-> ctl, envs |-> st.envs, out |-> st.out, log |-> st.log,
     err |-> IF ctl = "error"
             THEN [exc |-> err.exc, line |-> err.line, msg |-> err.msg, outs |-> Len(st.out)]
             ELSE err]

Normal(st) == Ended(st, "normal", NoneValue)

\* the value of an expression, or the end of the statement by its error
WithValue(st, r, K(_)) == IF r.exc # "none" THEN Ended(st, "error", r) ELSE K(r.value)

\* go on after a statement that ended normally
AndThen(r, K(_)) == IF r.ctl # "normal" THEN r ELSE K(r)

Emit(st, n, value) ==
    [st EXCEPT !.out = Append(st.out, [stmt |-> n.node, value |-> value, line |-> n.line])]

\* a number truncated toward zero
Trunc(v) == IF Num(v) < 0 THEN 0 - ((0 - Num(v)) \div Den(v)) ELSE Num(v) \div Den(v)

\* the root scope of an interpreter: the loop counter, the two boolean
\* constants and the two mathematical constants
RootScope ==
    [vars |-> [n \in {"LOOPCOUNT", "TRUE", "FALSE", "PI", "E"} |->
                  CASE n = "LOOPCOUNT" -> IntValue(0)
                    [] n = "TRUE" -> BoolValue(TRUE)
                    [] n = "FALSE" -> BoolValue(FALSE)
                    [] OTHER -> ConstValue(n)],
     parent |-> 0]

\* the scope of the chain of e that binds name, 0 when none does
RECURSIVE ScopeOf(_, _, _)
ScopeOf(es, e, name) ==
    IF name \in DOMAIN es[e].vars THEN e
    ELSE IF es[e].parent # 0 THEN ScopeOf(es, es[e].parent, name)
    ELSE 0

\* a write-back into the innermost scope
assign_Innermost(es, e, name, value) == Environment_set(es, e, name, value)

\* the write-back of a mutate: into the scope where the name was found
assign(es, e, name, value) == Environment_set(es, ScopeOf(es, e, name), name, value)

ModifyOps == [op \in {"ADD", "SUB", "MUL", "DIV"} |->
                 CASE op = "ADD" -> "+" [] op = "SUB" -> "-"
                   [] op = "MUL" -> "*" [] op = "DIV" -> "/"]

\* a mutate that declares the variable, as 0, when no scope binds it
modify_Declaring(st, e, n) ==
    LET cur == IF ScopeOf(st.envs, e, n.name.s) = 0 THEN Value(IntValue(0))
               ELSE lookup(st.envs, e, n.name.s, n.line)
    IN  WithValue(st, evaluate(st.envs, e, n.amount, n.line), LAMBDA amount :
        WithValue(st, Arith(ModifyOps[n.op.s], cur.value, amount, n.line), LAMBDA v :
        Normal([st EXCEPT !.envs =
                    IF ScopeOf(st.envs, e, n.name.s) = 0
                    THEN Environment_set(st.envs, e, n.name.s, v)
                    ELSE assign(st.envs, e, n.name.s, v)])))

\* ADD/SUB/MUL/DIV name BY amount: the variable must exist in the chain
modify(st, e, n) ==
    WithValue(st, lookup(st.envs, e, n.name.s, n.line), LAMBDA cur :
    WithValue(st, evaluate(st.envs, e, n.amount, n.line), LAMBDA amount :
    WithValue(st, Arith(ModifyOps[n.op.s], cur, amount, n.line), LAMBDA v :
    Normal([st EXCEPT !.envs = assign(st.envs, e, n.name.s, v)]))))

\* every variable visible from e, the innermost binding of a name winning
RECURSIVE all_vars(_, _)
all_vars(es, e) ==
    LET outer == IF es[e].parent = 0 THEN NoVars ELSE all_vars(es, es[e].parent)
    IN  [n \in DOMAIN outer \cup DOMAIN es[e].vars |->
            IF n \in DOMAIN es[e].vars THEN es[e].vars[n] ELSE outer[n]]

\* the listing of DUMP: the visible variables but the boolean constants
dump(es, e) ==
    [n \in DOMAIN all_vars(es, e) \ {"TRUE", "FALSE"} |-> all_vars(es, e)[n]]

\* a fresh scope under e
NewScope(st, e) == [st EXCEPT !.envs = Append(st.envs, Environment__init__(e))]

\* the entry of the log for one execution of a body: before is the state
\* at the statement, started the state with the child scope made, r the end
BodyEntry(kind, n, e, before, started, r) ==
    [ev |-> "body", kind |-> kind, line |-> n.line,
     scope |-> Len(before.envs) + 1, parent |-> started.envs[Len(before.envs) + 1].parent,
     fresh |-> Len(started.envs) = Len(before.envs) + 1,
     seed |-> started.envs[Len(before.envs) + 1].vars,
     names |-> DOMAIN before.envs[e].vars, left |-> DOMAIN r.envs[e].vars,
     ctl |-> r.ctl]

Logged(r, entry) == [r EXCEPT !.log = Append(r.log, entry)]

LogBody(kind, n, e, before, started, r) ==
    Logged(r, BodyEntry(kind, n, e, before, started, r))

RECURSIVE execute(_, _, _)
RECURSIVE execute_body(_, _, _)
RECURSIVE loop_iterations(_, _, _, _, _, _)
RECURSIVE after_body(_, _, _, _, _, _)

\* the statements of a body in order, up to the first that does not end
\* normally
execute_body(st, e, body) ==
    IF body = <<>> THEN Normal(st)
    ELSE AndThen(execute(st, e, Head(body)), LAMBDA r : execute_body(r, e, Tail(body)))

\* IF: the condition, then one fresh child scope for the body chosen
execute_if(st, e, n) ==
    WithValue(st, evaluate(st.envs, e, n.condition, n.line), LAMBDA c :
    LogBody("if", n, e, st, NewScope(st, e),
            execute_body(NewScope(st, e), Len(st.envs) + 1,
                         IF Truthy(c) THEN n.then_body ELSE n.else_body)))

\* the entry of the log for one execution of a LOOP: start is the state at
\* the statement, r the end, ctl what ended the iterations
LoopEntry(n, e, count, start, r, ctl) ==
    [ev |-> "loop", line |-> n.line, count |-> count, parent |-> e,
     first |-> Len(start.log), ctl |-> ctl, result |-> r.ctl,
     same |-> r.envs = start.envs /\ r.out = start.out]

EndLoop(r, n, e, count, start, ctl) == Logged(r, LoopEntry(n, e, count, start, r, ctl))

\* a fresh child scope of e with the loop counter bound to i
Seeded(st, e, i) ==
    [st EXCEPT !.envs = Environment_set(NewScope(st, e).envs, Len(st.envs) + 1,
                                        "LOOPCOUNT", IntValue(i))]

\* iterations 1 .. count + 1
loop_iterations_OneMore(st, e, n, i, count, start) ==
    IF i > count + 1 THEN EndLoop(Normal(st), n, e, count, start, "normal")
    ELSE after_body(LogBody("loop", n, e, st, Seeded(st, e, i),
                            execute_body(Seeded(st, e, i), Len(st.envs) + 1, n.body)),
                    e, n, i, count, start)

\* iteration i of a LOOP and the ones after it, i = 1 .. count
loop_iterations(st, e, n, i, count, start) ==
    IF i > count THEN EndLoop(Normal(st), n, e, count, start, "normal")
    ELSE after_body(LogBody("loop", n, e, st, Seeded(st, e, i),
                            execute_body(Seeded(st, e, i), Len(st.envs) + 1, n.body)),
                    e, n, i, count, start)

\* a loop-exit handed on by the loop the way an error is
after_body_NotAbsorbed(r, e, n, i, count, start) ==
    IF r.ctl # "normal" THEN EndLoop(r, n, e, count, start, r.ctl)
    ELSE loop_iterations(r, e, n, i + 1, count, start)

\* after the body of iteration i: a loop-exit ends the loop here and the
\* statement ends normally; an error or program-terminate goes on up
after_body(r, e, n, i, count, start) ==
    IF r.ctl = "break" THEN EndLoop(Normal(r), n, e, count, start, "break")
    ELSE IF r.ctl # "normal" THEN EndLoop(r, n, e, count, start, r.ctl)
    ELSE loop_iterations(r, e, n, i + 1, count, start)

\* LOOP: the count once, truncated toward zero
execute_loop(st, e, n) ==
    WithValue(st, evaluate(st.envs, e, n.count, n.line), LAMBDA c :
    IF ~IsNumber(c) THEN Ended(st, "error", RuntimeError_(n.line, "type mismatch"))
    ELSE loop_iterations(st, e, n, 1, Trunc(c), st))

execute(st, e, n) ==
    CASE n.node \in {"SayNode", "YellNode", "WhisperNode", "ConfuseNode", "YeetNode"} ->
            WithValue(st, evaluate(st.envs, e, n.expr, n.line), LAMBDA v :
            Normal(Emit(st, n, v)))
      [] n.node = "RepeatNode" ->
            WithValue(st, evaluate(st.envs, e, n.expr, n.line), LAMBDA v :
            WithValue(st, evaluate(st.envs, e, n.count, n.line), LAMBDA c :
            IF ~IsNumber(c) THEN Ended(st, "error", RuntimeError_(n.line, "type mismatch"))
            ELSE Normal(Emit(st, n, [value |-> v, times |-> Trunc(c)]))))
      [] n.node = "SetNode" ->
            WithValue(st, evaluate(st.envs, e, n.value, n.line), LAMBDA v :
            Normal([st EXCEPT !.envs = Environment_set(st.envs, e, n.name.s, v)]))
      [] n.node = "ModifyNode" -> modify(st, e, n)
      [] n.node = "IfNode" -> execute_if(st, e, n)
      [] n.node = "LoopNode" -> execute_loop(st, e, n)
      [] n.node = "BreakoutNode" -> Ended(st, "break", NoneValue)
      [] n.node = "StopNode" -> Ended(st, "stop", NoneValue)
      [] n.node = "WaitNode" ->
            WithValue(st, evaluate(st.envs, e, n.seconds, n.line), LAMBDA v :
            IF ~IsNumber(v) THEN Ended(st, "error", RuntimeError_(n.line, "type mismatch"))
            ELSE Normal(st))
      [] n.node = "DumpNode" -> Normal(Emit(st, n, dump(st.envs, e)))
      [] OTHER -> Normal(Emit(st, n, NoneValue))


(***************************************************************************)
(* Source texts as lines of words separated by blanks, and the tokens the  *)
(* lexer makes of them: a keyword, a number, an operator or an identifier  *)
(* per word, a NEWLINE between two lines, EOF last.                        *)
(***************************************************************************)
NumberWords == [w \in {"0", "1", "2", "3"} |->
                   CASE w = "0" -> 0 [] w = "1" -> 1 [] w = "2" -> 2 [] w = "3" -> 3]

OperatorWords == {OperatorText[tt] : tt \in DOMAIN OperatorText}

WordToken(w, ln, c) ==
    CASE w \in KEYWORDS -> Token(w, StrValue(w), ln, c)
      [] w \in DOMAIN NumberWords -> Token("NUMBER", IntValue(NumberWords[w]), ln, c)
      [] w \in OperatorWords ->
            Token(CHOOSE tt \in DOMAIN OperatorText : OperatorText[tt] = w, StrValue(w), ln, c)
      [] OTHER -> Token("IDENTIFIER", StrValue(w), ln, c)

LineTokens(words, ln) == [i \in DOMAIN words |-> WordToken(words[i], ln, i)]

RECURSIVE LinesTokens(_, _)
LinesTokens(lines, ln) ==
    IF lines = <<>> THEN <<>>
    ELSE LineTokens(Head(lines), ln)
         \o (IF Len(lines) > 1
             THEN <<Token("NEWLINE", StrValue("\\n"), ln, Len(Head(lines)) + 1)>>
             ELSE <<>>)
         \o LinesTokens(Tail(lines), ln + 1)

\* Lexer(source).tokenize() of the lines joined by newlines
tokenize(lines) ==
    LinesTokens(lines, 1)
    \o <<Token("EOF", NoneValue, IF lines = <<>> THEN 1 ELSE Len(lines), 1)>>

\* words with a character that starts no token
BadWords == {"$", ".exit", ".help", ".clear", ".run", "stop.franz", "bad.franz", "none.franz"}

BadLines(lines) == {k \in DOMAIN lines : \E c \in DOMAIN lines[k] : lines[k][c] \in BadWords}

\* compile_source: the LexError of the first such word, else the parser's
\* result on the tokens
compile_source(lines) ==
    IF BadLines(lines) # {}
    THEN [exc |-> "LexError", line |-> CHOOSE k \in BadLines(lines) :
                                          \A h \in BadLines(lines) : k <= h]
    ELSE parse(tokenize(lines))

(***************************************************************************)
(* Interpreter.run(program) on the root scope as a state machine: the      *)
(* program is compiled and the interpreter made, then one step per         *)
(* statement of the body of the program.                                   *)
(***************************************************************************)
RunState == [envs |-> envs, out |-> rout, log |-> rlog]

RunStep == execute(RunState, 1, rprogram.body[rpc + 1])

Running == rstatus = "running" /\ rpc < Len(rprogram.body)

Keep(r) ==
    /\ envs' = r.envs
    /\ rout' = r.out
    /\ rlog' = r.log

RunNew ==
    /\ rstatus = "new"
    /\ \E c \in {compile_source(rinput)} :
          IF c.exc = "none"
          THEN /\ rprogram' = c.node
               /\ rstatus' = "running"
               /\ rerr' = NoneValue
               /\ envs' = <<RootScope>>
          ELSE /\ rprogram' = NoneValue
               /\ rstatus' = c.exc
               /\ rerr' = c
               /\ envs' = envs
    /\ UNCHANGED <<rinput, rpc, rout, rlog, ecall>>
    /\ UNCHANGED <<lexvars, parvars, replvars, bracevars>>

RunStatement ==
    /\ Running
    /\ \E r \in {RunStep} : r.ctl = "normal" /\ Keep(r)
    /\ rpc' = rpc + 1
    /\ UNCHANGED <<rinput, rprogram, rstatus, rerr, ecall>>
    /\ UNCHANGED <<lexvars, parvars, replvars, bracevars>>

\* a RuntimeError_ leaves run()
RunRaise ==
    /\ Running
    /\ \E r \in {RunStep} : r.ctl = "error" /\ Keep(r) /\ rerr' = r.err
    /\ rstatus' = "RuntimeError_"
    /\ UNCHANGED <<rinput, rprogram, rpc, ecall>>
    /\ UNCHANGED <<lexvars, parvars, replvars, bracevars>>

\* program-terminate leaves run()
RunExit ==
    /\ Running
    /\ \E r \in {RunStep} : r.ctl = "stop" /\ Keep(r)
    /\ rstatus' = "SystemExit"
    /\ rerr' = NoneValue
    /\ UNCHANGED <<rinput, rprogram, rpc, ecall>>
    /\ UNCHANGED <<lexvars, parvars, replvars, bracevars>>

\* a loop-exit outside every loop leaves run()
RunUnwind ==
    /\ Running
    /\ \E r \in {RunStep} : r.ctl = "break" /\ Keep(r)
    /\ rstatus' = "BreakSignal"
    /\ rerr' = NoneValue
    /\ UNCHANGED <<rinput, rprogram, rpc, ecall>>
    /\ UNCHANGED <<lexvars, parvars, replvars, bracevars>>

RunReturn ==
    /\ rstatus = "running"
    /\ rpc = Len(rprogram.body)
    /\ rstatus' = "returned"
    /\ UNCHANGED <<rinput, rprogram, rpc, rout, rerr, rlog, envvars>>
    /\ UNCHANGED <<lexvars, parvars, replvars, bracevars>>

(***************************************************************************)
(* The programs run.  Blocks: a body of simple statements inside two       *)
(* wrappers, each nothing, an IF taken or not taken, or a LOOP with a      *)
(* count above, at and below zero, after SET x TO 1 and before SAY x.      *)
(* Expressions: SAY with any string of operands and operators between      *)
(* SET x TO 2 and SAY x.                                                   *)
(***************************************************************************)
MaxBodyLines == 2

MaxRunExpr == 3

BodyLines ==
    {<<"SET", "y", "TO", "1">>, <<"ADD", "x", "BY", "1">>, <<"ADD", "u", "BY", "1">>,
     <<"DIV", "x", "BY", "0">>, <<"SAY", "x">>, <<"BREAKOUT">>, <<"STOP">>}

Wrappers ==
    {[open |-> <<>>, close |-> <<>>],
     [open |-> <<<<"IF", "1", "THEN">>>>, close |-> <<<<"ENDIF">>>>],
     [open |-> <<<<"IF", "0", "THEN">>, <<"ELSE">>>>, close |-> <<<<"ENDIF">>>>],
     [open |-> <<<<"IF", "LOOPCOUNT", "==", "2", "THEN">>>>, close |-> <<<<"ENDIF">>>>],
     [open |-> <<<<"LOOP", "3", "TIMES">>>>,
      close |-> <<<<"SAY", "LOOPCOUNT">>, <<"ENDLOOP">>>>],
     [open |-> <<<<"LOOP", "0", "TIMES">>>>, close |-> <<<<"ENDLOOP">>>>],
     [open |-> <<<<"LOOP", "-", "1", "TIMES">>>>, close |-> <<<<"ENDLOOP">>>>],
     [open |-> <<<<"LOOP", "3", "/", "2", "TIMES">>>>, close |-> <<<<"ENDLOOP">>>>]}

BlockPrograms ==
    {<<<<"SET", "x", "TO", "1">>>> \o outer.open \o inner.open \o body
        \o inner.close \o outer.close \o <<<<"SAY", "x">>>> :
        outer \in Wrappers, inner \in Wrappers, body \in SeqsUpTo(BodyLines, MaxBodyLines)}

ExprWords == {"0", "1", "x", "u", "AND", "OR", "NOT", "/"}

ExprPrograms ==
    {<<<<"SET", "x", "TO", "2">>, <<"SAY">> \o e, <<"SAY", "x">>>> :
        e \in SeqsUpTo(ExprWords, MaxRunExpr)}

Programs == BlockPrograms \cup ExprPrograms

RunInit ==
    /\ rinput \in Programs
    /\ rprogram = NoneValue
    /\ rpc = 0
    /\ rout = <<>>
    /\ rstatus = "new"
    /\ rerr = NoneValue
    /\ rlog = <<>>
    /\ LexerIdle
    /\ ParserIdle
    /\ EnvIdle
    /\ ReplIdle
    /\ BraceIdle

RunNext ==
    \/ RunNew
    \/ RunStatement
    \/ RunRaise
    \/ RunExit
    \/ RunUnwind
    \/ RunReturn

RunSpec == RunInit /\ [][RunNext]_vars


(***************************************************************************)
(* Properties of the interpreter                                           *)
(***************************************************************************)
RunDone == rstatus \notin {"idle", "new", "running"}

Bodies == {i \in DOMAIN rlog : rlog[i].ev = "body"}

Loops == {i \in DOMAIN rlog : rlog[i].ev = "loop"}

\* C13: when the body of an IF or of a LOOP iteration has finished, however
\* it ended, the scope the block statement ran in binds exactly the names it
\* bound before the body: nothing declared in the body is left in it.
C13_BodyNamesDoNotLeak ==
    \A i \in Bodies : rlog[i].left = rlog[i].names

\* the body of a LOOP inside the body of an IF declared y in its own scope,
\* and both bodies have finished
C13_Witness ==
    \E i, j \in Bodies : /\ rlog[i].kind = "loop"
                         /\ rlog[i].ctl = "normal"
                         /\ "y" \in DOMAIN envs[rlog[i].scope].vars
                         /\ "y" \notin rlog[i].left
                         /\ rlog[j].kind = "if"
                         /\ rlog[j].ctl = "normal"
                         /\ rlog[i].parent = rlog[j].scope

(***************************************************************************)
(* The program SET x TO 2 / SAY a op b / SAY x, for operands a and b among *)
(* 0, 1, x and the unbound u: what its second statement must do, read off  *)
(* the words.                                                              *)
(***************************************************************************)
Operands == {"0", "1", "x", "u"}

LogicProgram(a, op, b) ==
    <<<<"SET", "x", "TO", "2">>, <<"SAY", a, op, b>>, <<"SAY", "x">>>>

\* the truthiness of an operand that has a value: x is 2
TruthOf(w) == w \in {"1", "x"}

\* the right operand is needed: the left one does not decide
NeedsRight(a, op) == IF op = "AND" THEN TruthOf(a) ELSE ~TruthOf(a)

SecondDone == rstatus = "RuntimeError_" \/ (rstatus \in {"running", "returned"} /\ rpc >= 2)

Undefined == rstatus = "RuntimeError_" /\ rerr.msg = "undefined variable" /\ rout = <<>>

Said(b) == rstatus # "RuntimeError_" /\ Len(rout) >= 1 /\ rout[1].value = BoolValue(b)

NumberIn(n, zero) ==
    LET v == evaluate(envs, 1, n, 0)
    IN  v.exc = "none" /\ IsNumber(v.value) /\ (Num(v.value) = 0) = zero

\* statement n, about to run at the top of the program, divides a number by
\* zero: DIV name BY amount on a bound number with a zero amount, or SAY of a
\* quotient of two numbers with a zero divisor
DividesByZero(n) ==
    \/ /\ n.node = "ModifyNode"
       /\ n.op.s = "DIV"
       /\ NumberIn([node |-> "IdentNode", name |-> n.name, line |-> n.line], TRUE)
             \/ NumberIn([node |-> "IdentNode", name |-> n.name, line |-> n.line], FALSE)
       /\ NumberIn(n.amount, TRUE)
    \/ /\ n.node = "SayNode"
       /\ n.expr.node = "BinOpNode"
       /\ n.expr.op = "/"
       /\ NumberIn(n.expr.left, TRUE) \/ NumberIn(n.expr.left, FALSE)
       /\ NumberIn(n.expr.right, TRUE)

DivisionError == rstatus = "RuntimeError_" /\ rerr.msg = "division by zero"

\* the lines between the first and line k all open a block whose body runs
OpenedTo(k) ==
    \A j \in 2 .. k - 1 : rinput[j] \in {<<"IF", "1", "THEN">>, <<"LOOP", "3", "TIMES">>}

UndefinedError == rstatus = "RuntimeError_" /\ rerr.msg = "undefined variable"

\* how often a statement on line k runs when the blocks opened before it all
\* run: three times per LOOP 3 TIMES around it
TimesRun(k) == Pow(3, Cardinality({j \in 2 .. k - 1 : rinput[j][1] = "LOOP"}))

\* C16: ADD/SUB/MUL/DIV on a name no scope of the chain binds raises the
\* undefined-variable error and binds the name nowhere, in no scope ever
\* made; on a bound name the result is written into the scope that binds it:
\* ADD x BY 1 inside bodies changes the x of the root scope, once per run of
\* the statement, and leaves no x in the scopes of the bodies.
C16_MutateNeedsBinding ==
    /\ \A e \in DOMAIN envs : "u" \notin DOMAIN envs[e].vars
    /\ \A e \in DOMAIN envs : e > 1 => "x" \notin DOMAIN envs[e].vars
    /\ \A k \in DOMAIN rinput :
          (RunDone /\ rinput[k] = <<"ADD", "u", "BY", "1">> /\ k > 1 /\ OpenedTo(k))
             => (UndefinedError /\ rerr.line = k /\ rout = <<>>)
    /\ \A k \in DOMAIN rinput :
          (/\ rstatus = "returned"
           /\ rinput[k] = <<"ADD", "x", "BY", "1">>
           /\ k > 1
           /\ OpenedTo(k)
           /\ rinput[k + 1] \notin BodyLines)
             => /\ envs[1].vars["x"] = IntValue(1 + TimesRun(k))
                /\ rout[Len(rout)].value = IntValue(1 + TimesRun(k))

\* inside the body of an IF inside a LOOP, ADD x BY 1 has changed the x of
\* the root scope and ADD u BY 1 has then raised
C16_Witness ==
    /\ rinput[2] = <<"LOOP", "3", "TIMES">>
    /\ rinput[3] = <<"IF", "1", "THEN">>
    /\ rinput[4] = <<"ADD", "x", "BY", "1">>
    /\ rinput[5] = <<"ADD", "u", "BY", "1">>
    /\ UndefinedError
    /\ rerr.line = 5
    /\ envs[1].vars["x"] = IntValue(2)
    /\ Len(envs) = 3

(***************************************************************************)
(* Counted loops.  The log holds one entry per body run and, after them,   *)
(* one per execution of a LOOP statement.                                  *)
(***************************************************************************)
\* the body runs of the execution of a LOOP logged at i, in order of time
IterationsOf(i) ==
    {j \in rlog[i].first + 1 .. i - 1 :
        rlog[j].ev = "body" /\ rlog[j].kind = "loop" /\ rlog[j].line = rlog[i].line}

\* the place of body run j among them
Rank(i, j) == Cardinality({h \in IterationsOf(i) : h <= j})

\* the count a LOOP line asks for, truncated toward zero
CountOf(words) ==
    CASE words = <<"LOOP", "3", "TIMES">> -> 3
      [] words = <<"LOOP", "0", "TIMES">> -> 0
      [] words = <<"LOOP", "-", "1", "TIMES">> -> 0 - 1
      [] words = <<"LOOP", "3", "/", "2", "TIMES">> -> 1

\* C17: a LOOP whose count n is zero or negative runs its body zero times
\* and sets no loop counter: it makes no scope, changes no variable and
\* outputs nothing.  A LOOP with n >= 1 that is not left early runs its body
\* exactly trunc(n) times; the k-th run is in a scope made for it, a child of
\* the scope of the LOOP that binds LOOPCOUNT to k and nothing else, for
\* k = 1, 2, ... in this order; a loop left early has run a beginning of
\* this sequence.
C17_LoopRunsCountTimes ==
    \A i \in Loops :
        /\ rlog[i].count = CountOf(rinput[rlog[i].line])
        /\ rlog[i].count <= 0
              => (IterationsOf(i) = {} /\ rlog[i].same /\ rlog[i].ctl = "normal")
        /\ rlog[i].ctl = "normal" /\ rlog[i].count >= 1
              => Cardinality(IterationsOf(i)) = rlog[i].count
        /\ Cardinality(IterationsOf(i)) <= rlog[i].count \/ IterationsOf(i) = {}
        /\ \A j \in IterationsOf(i) :
              /\ rlog[j].seed = [v \in {"LOOPCOUNT"} |-> IntValue(Rank(i, j))]
              /\ rlog[j].fresh
              /\ rlog[j].parent = rlog[i].parent
              /\ \A h \in IterationsOf(i) : h < j => rlog[h].scope < rlog[j].scope
              /\ (rlog[j].ctl # "normal") => Rank(i, j) = Cardinality(IterationsOf(i))

\* a LOOP 3 TIMES has run its body three times, each time running a
\* LOOP 0 TIMES that ran nothing, and its SAY LOOPCOUNT has said 1, 2, 3
C17_Witness ==
    /\ rinput[2] = <<"LOOP", "3", "TIMES">>
    /\ rinput[3] = <<"LOOP", "0", "TIMES">>
    /\ rstatus = "returned"
    /\ \E i \in Loops : rlog[i].count = 3 /\ Cardinality(IterationsOf(i)) = 3
    /\ Cardinality({i \in Loops : rlog[i].count = 0 /\ rlog[i].same}) = 3
    /\ [k \in 1 .. 4 |-> rout[k].value] = <<IntValue(1), IntValue(2), IntValue(3), IntValue(1)>>

(***************************************************************************)
(* Loop-exit                                                               *)
(***************************************************************************)
OutValues == [k \in DOMAIN rout |-> rout[k].value]

RunsLoop(words) == words \in {<<"LOOP", "3", "TIMES">>, <<"LOOP", "3", "/", "2", "TIMES">>}

\* C18: BREAKOUT, directly in the body of a loop or inside IFs in it, ends
\* the innermost LOOP around it and only that one: the body run it is in is
\* the last of that loop, the LOOP statement itself ends normally, so the
\* statements after it run and a loop around it goes on with its own
\* iterations; a run never ends by a loop-exit that a loop was around, and
\* never by an error made of one.
C18_BreakoutEndsInnermostLoop ==
    /\ \A i \in Loops :
          /\ rlog[i].ctl = "break" => rlog[i].result = "normal"
          /\ \A j \in IterationsOf(i) :
                rlog[j].ctl = "break"
                   => (rlog[i].ctl = "break" /\ Rank(i, j) = Cardinality(IterationsOf(i)))
    /\ rstatus = "BreakSignal" => \A k \in DOMAIN rinput : rinput[k][1] # "LOOP"
    /\ rstatus = "RuntimeError_"
          => rerr.msg \in {"undefined variable", "division by zero", "type mismatch"}
    /\ (RunDone /\ rinput[2] = <<"LOOP", "3", "TIMES">> /\ rinput[4] = <<"BREAKOUT">>)
          => /\ RunsLoop(rinput[3])
                => /\ rstatus = "returned"
                   /\ OutValues = <<IntValue(1), IntValue(2), IntValue(3), IntValue(1)>>
             /\ rinput[3] = <<"IF", "1", "THEN">>
                => /\ rstatus = "returned"
                   /\ OutValues = <<IntValue(1)>>

\* BREAKOUT in a LOOP inside a LOOP 3 TIMES: the inner loop was left three
\* times in its first iteration, the outer one ran all its iterations, and
\* the program ran to its end
C18_Witness ==
    /\ rinput[2] = <<"LOOP", "3", "TIMES">>
    /\ rinput[3] = <<"LOOP", "3", "TIMES">>
    /\ rinput[4] = <<"BREAKOUT">>
    /\ rstatus = "returned"
    /\ Cardinality({i \in Loops : rlog[i].ctl = "break" /\ rlog[i].line = 3
                                     /\ Cardinality(IterationsOf(i)) = 1}) = 3
    /\ \E i \in Loops : rlog[i].ctl = "normal" /\ rlog[i].line = 2
                           /\ Cardinality(IterationsOf(i)) = 3


(***************************************************************************)
(* The drivers: the REPL, which reads lines, buffers the lines of a block  *)
(* and hands the buffer to the pipeline, and the file runner its .run      *)
(* command calls.  S is the state of the REPL and of its interpreter.      *)
(***************************************************************************)
MaxLines == 3

BLOCK_OPENERS == {"IF", "LOOP"}

BLOCK_CLOSERS == {"ENDIF", "ENDLOOP"}

\* the first words that start with a dot
DotWords == {".exit", ".help", ".clear", ".run"}

ErrorKinds == {"LexError", "ParseError", "RuntimeError_"}

\* the stage _fmt_error is called with for each kind
Stage == [exc \in ErrorKinds |->
             CASE exc = "LexError" -> "Lexer"
               [] exc = "ParseError" -> "Parser"
               [] exc = "RuntimeError_" -> "Runtime"]

\* the files .run is used on
Files ==
    [f \in {"stop.franz", "bad.franz"} |->
        IF f = "stop.franz"
        THEN <<<<"SET", "x", "TO", "1">>, <<"STOP">>, <<"SAY", "x">>>>
        ELSE <<<<"SAY", "1">>, <<"SAY", "u">>, <<"SAY", "1">>>>]

\* Interpreter.run: the statements of the program in order, in the root scope
Interpreter_run(st, program) == execute_body(st, 1, program.body)

\* what run() leaves by: nothing, a RuntimeError_, or the SystemExit of
\* program-terminate
LeftBy(r) ==
    CASE r.ctl = "normal" -> "none"
      [] r.ctl = "error" -> "RuntimeError_"
      [] r.ctl = "stop" -> "SystemExit"
      [] OTHER -> "BreakSignal"

\* K of the value of e, e computed once
Let(e, K(_)) == CHOOSE v \in {K(x) : x \in {e}} : TRUE

\* run_source with each statement run as soon as it is parsed: the longest
\* beginning of the first line that compiles is run before the error is raised
run_source_UpToError(lines, st) ==
    Let(compile_source(lines), LAMBDA c :
    IF c.exc # "none"
    THEN LET good == {k \in 1..Len(lines[1]) :
                         compile_source(<<SubSeq(lines[1], 1, k)>>).exc = "none"}
             most == CHOOSE k \in good : \A j \in good : j <= k
         IN  IF good = {} THEN [exc |-> c.exc, envs |-> st.envs, out |-> st.out]
             ELSE Let(Interpreter_run(st, compile_source(<<SubSeq(lines[1], 1, most)>>).node),
                      LAMBDA r : [exc |-> c.exc, envs |-> <<r.envs[1]>>, out |-> r.out])
    ELSE Let(Interpreter_run(st, c.node), LAMBDA r :
         [exc |-> LeftBy(r), envs |-> <<r.envs[1]>>, out |-> r.out]))

\* run_source: what is raised and the interpreter it leaves; of the scopes
\* only the root one outlives the run
run_source(lines, st) ==
    Let(compile_source(lines), LAMBDA c :
    IF c.exc # "none" THEN [exc |-> c.exc, envs |-> st.envs, out |-> st.out]
    ELSE Let(Interpreter_run(st, c.node), LAMBDA r :
         [exc |-> LeftBy(r), envs |-> <<r.envs[1]>>, out |-> r.out]))

\* try: run_source(...) except LexError / ParseError / RuntimeError_:
\* print(_fmt_error(stage, e)), with a record of what was handed over and of
\* what was printed
Ran(S, lines, via) ==
    Let(run_source(lines, [envs |-> S.envs, out |-> S.out, log |-> <<>>]), LAMBDA r :
    [S EXCEPT !.envs = r.envs,
              !.out = r.out,
              !.handed = Append(@, [source |-> lines, via |-> via, exc |-> r.exc,
                                    said |-> Len(r.out) - Len(S.out)]),
              !.reported = IF r.exc \in ErrorKinds
                           THEN Append(@, [stage |-> Stage[r.exc], at |-> Len(S.handed) + 1])
                           ELSE @])

LastExc(S) == S.handed[Len(S.handed)].exc

\* _run_file: after an error is printed sys.exit(1); a SystemExit of the
\* program is not caught here
run_file(S, path) ==
    IF path \notin DOMAIN Files THEN S
    ELSE Let(Ran(S, Files[path], "file"), LAMBDA T :
         CASE LastExc(T) \in ErrorKinds -> [T EXCEPT !.exited = 1]
           [] LastExc(T) = "SystemExit" -> [T EXCEPT !.exited = 0]
           [] OTHER -> T)

\* the root scope .clear makes
ClearedScope ==
    [vars |-> [n \in {"LOOPCOUNT", "TRUE", "FALSE", "PI"} |->
                  CASE n = "LOOPCOUNT" -> IntValue(0)
                    [] n = "TRUE" -> BoolValue(TRUE)
                    [] n = "FALSE" -> BoolValue(FALSE)
                    [] OTHER -> ConstValue(n)],
     parent |-> 0]

\* REPL._meta
REPL_meta(S, cmd) ==
    CASE cmd[1] = ".exit" -> [S EXCEPT !.running = FALSE]
      [] cmd[1] = ".clear" -> [S EXCEPT !.envs = <<ClearedScope>>]
      [] cmd[1] = ".run" /\ Len(cmd) > 1 -> run_file(S, cmd[2])
      [] OTHER -> S

\* the end of REPL._handle with the SystemExit caught and dropped
execute_buffer_ExitIgnored(S, lines) == Ran(S, lines, "repl")

\* the end of REPL._handle: the buffer is run; except SystemExit:
\* self.running = False
execute_buffer(S, lines) ==
    Let(Ran(S, lines, "repl"), LAMBDA T :
    IF LastExc(T) = "SystemExit" THEN [T EXCEPT !.running = FALSE] ELSE T)

\* the depth after a line with first word w
track_depth(d, w) ==
    IF w \in BLOCK_OPENERS THEN d + 1
    ELSE IF w \in BLOCK_CLOSERS THEN (IF d - 1 > 0 THEN d - 1 ELSE 0)
    ELSE d

\* a REPL._handle without self.buffer.clear()
REPL_handle_BufferKept(S, raw) ==
    IF raw # <<>> /\ raw[1] \in DotWords /\ S.depth = 0 THEN REPL_meta(S, raw)
    ELSE IF raw = <<>>
    THEN (IF S.depth > 0 THEN [S EXCEPT !.buffer = Append(@, raw)] ELSE S)
    ELSE IF track_depth(S.depth, raw[1]) = 0
    THEN execute_buffer([S EXCEPT !.depth = 0, !.buffer = Append(@, raw)],
                        Append(S.buffer, raw))
    ELSE [S EXCEPT !.depth = track_depth(S.depth, raw[1]), !.buffer = Append(@, raw)]

\* REPL._handle
REPL_handle(S, raw) ==
    IF raw # <<>> /\ raw[1] \in DotWords /\ S.depth = 0 THEN REPL_meta(S, raw)
    ELSE IF raw = <<>>
    THEN (IF S.depth > 0 THEN [S EXCEPT !.buffer = Append(@, raw)] ELSE S)
    ELSE IF track_depth(S.depth, raw[1]) = 0
    THEN execute_buffer([S EXCEPT !.depth = 0, !.buffer = <<>>], Append(S.buffer, raw))
    ELSE [S EXCEPT !.depth = track_depth(S.depth, raw[1]), !.buffer = Append(@, raw)]

ReplState ==
    [buffer |-> buffer, depth |-> depth, running |-> running, handed |-> handed,
     reported |-> reported, exited |-> exited, envs |-> envs, out |-> rout]

\* the lines typed
ReplLines ==
    {<<"SET", "x", "TO", "1">>, <<"IF", "x", "THEN">>, <<"ENDIF">>, <<"SAY", "x">>,
     <<"STOP">>, <<"IF", "x", "THEN", "SAY", "x", "ENDIF">>,
     <<"SET", "x", "TO", "1", "IF", "x", "THEN">>,
     <<"SET", "x", "TO", "1", "$">>, <<>>,
     <<".exit">>, <<".help">>, <<".clear">>,
     <<".run", "stop.franz">>, <<".run", "bad.franz">>, <<".run", "none.franz">>}

\* one turn of the loop of REPL.start: a line is read and handled
ReplHandle ==
    /\ running
    /\ exited = 0 - 1
    /\ nread < MaxLines
    /\ \E raw \in ReplLines : \E T \in {REPL_handle(ReplState, raw)} :
          /\ buffer' = T.buffer
          /\ depth' = T.depth
          /\ running' = T.running
          /\ handed' = T.handed
          /\ reported' = T.reported
          /\ exited' = T.exited
          /\ envs' = T.envs
          /\ rout' = T.out
    /\ nread' = nread + 1
    /\ UNCHANGED <<ecall, rinput, rprogram, rpc, rstatus, rerr, rlog>>
    /\ UNCHANGED <<lexvars, parvars, bracevars>>

\* input() raises EOFError or KeyboardInterrupt: the loop is left and the
\* process ends
ReplEOF ==
    /\ running
    /\ exited = 0 - 1
    /\ exited' = 0
    /\ UNCHANGED <<buffer, depth, running, nread, handed, reported>>
    /\ UNCHANGED <<lexvars, parvars, envvars, runvars, bracevars>>

ReplInit ==
    /\ buffer = <<>>
    /\ depth = 0
    /\ running = TRUE
    /\ nread = 0
    /\ handed = <<>>
    /\ reported = <<>>
    /\ exited = 0 - 1
    /\ envs = <<RootScope>>
    /\ ecall = NoneValue
    /\ rout = <<>>
    /\ rinput = <<>>
    /\ rprogram = NoneValue
    /\ rpc = 0
    /\ rstatus = "idle"
    /\ rerr = NoneValue
    /\ rlog = <<>>
    /\ LexerIdle
    /\ ParserIdle
    /\ BraceIdle

ReplNext ==
    \/ ReplHandle
    \/ ReplEOF

ReplSpec == ReplInit /\ [][ReplNext]_vars


(***************************************************************************)
(* Properties of the drivers                                               *)
(***************************************************************************)
ReportsOf(i) == {k \in DOMAIN reported : reported[k].at = i}

Stopped == \E i \in DOMAIN handed : handed[i].exc = "SystemExit"

\* what the drivers did about the runs so far
DriverKept ==
    \A i \in DOMAIN handed :
        /\ handed[i].exc = "SystemExit"
              => /\ i = Len(handed)
                 /\ ReportsOf(i) = {}
                 /\ handed[i].via = "repl" => (~running /\ exited = 0 - 1)
                 /\ handed[i].via = "file" => exited = 0
        /\ handed[i].exc \in ErrorKinds
              => /\ \E k \in ReportsOf(i) : reported[k].stage = Stage[handed[i].exc]
                 /\ handed[i].via = "file" => exited = 1
        /\ handed[i].exc = "none" => ReportsOf(i) = {}
        /\ handed[i].source = Files["stop.franz"]
              => (handed[i].exc = "SystemExit" /\ handed[i].said = 0)
        /\ handed[i].source = Files["bad.franz"]
              => (handed[i].exc = "RuntimeError_" /\ handed[i].said = 1)

\* C19: a run that ends by STOP is told apart from a run that ends by an
\* error.  After STOP nothing is reported, no statement after the STOP runs
\* (the SAY after it says nothing), the REPL stops running (or, for a file,
\* the process ends with status 0) and no later line is read, run or
\* buffered.  A LexError, ParseError or RuntimeError_ is reported under the
\* name of its stage, after which the REPL goes on (a file run ends with
\* status 1).
C19_StopIsNotAnError ==
    [][/\ DriverKept'
       /\ Stopped => UNCHANGED <<buffer, depth, running, nread, handed, reported, envs, rout>>
       /\ (/\ Len(handed') > Len(handed)
           /\ handed'[Len(handed')].via = "repl"
           /\ handed'[Len(handed')].exc \in ErrorKinds) => (running' /\ exited' = 0 - 1)
      ]_vars

\* SAY x failed and was reported, then STOP ended the REPL with a line still
\* to come
C19_Witness ==
    /\ Len(handed) = 2
    /\ handed[1].exc = "RuntimeError_"
    /\ handed[2].exc = "SystemExit"
    /\ handed[2].source = <<<<"STOP">>>>
    /\ Len(reported) = 1
    /\ ~running
    /\ nread = 2

(***************************************************************************)
(* Blocks in the text of the REPL                                          *)
(***************************************************************************)
\* the words of the lines in order
RECURSIVE WordsOf(_)
WordsOf(lines) == IF lines = <<>> THEN <<>> ELSE Head(lines) \o WordsOf(Tail(lines))

\* the number of IF and LOOP of the words that no ENDIF or ENDLOOP after
\* them has closed
RECURSIVE Unclosed(_, _)
Unclosed(words, d) ==
    IF words = <<>> THEN d
    ELSE Unclosed(Tail(words),
                  IF Head(words) \in BLOCK_OPENERS THEN d + 1
                  ELSE IF Head(words) \in BLOCK_CLOSERS /\ d > 0 THEN d - 1
                  ELSE d)

OpenBlocks(lines) == Unclosed(WordsOf(lines), 0)

\* IF, LOOP, ENDIF and ENDLOOP are first words only
LeadingOnly(lines) ==
    \A k \in DOMAIN lines : \A c \in DOMAIN lines[k] :
        lines[k][c] \in BLOCK_OPENERS \cup BLOCK_CLOSERS => c = 1

\* C20: the REPL hands its buffer to the pipeline exactly when every IF and
\* LOOP opened in the buffered text has been closed: what it hands over has
\* no block open, and what it keeps in the buffer has a block open, wherever
\* on their lines the keywords are.
C20_HandedWhenBlocksClosed ==
    /\ \A i \in DOMAIN handed : handed[i].via = "repl" => OpenBlocks(handed[i].source) = 0
    /\ buffer # <<>> => OpenBlocks(buffer) > 0

\* the same for text whose block keywords are all first words of their lines
C20_OnLeadingKeywords ==
    /\ \A i \in DOMAIN handed :
          (handed[i].via = "repl" /\ LeadingOnly(handed[i].source))
             => OpenBlocks(handed[i].source) = 0
    /\ (buffer # <<>> /\ LeadingOnly(buffer)) => OpenBlocks(buffer) > 0

\* IF x THEN / SAY x / ENDIF was buffered and handed over as one text
C20_OnLeadingKeywords_Witness ==
    /\ Len(handed) = 1
    /\ handed[1].source = <<<<"IF", "x", "THEN">>, <<"SAY", "x">>, <<"ENDIF">>>>
    /\ buffer = <<>>

(***************************************************************************)
(* Sources that do not compile                                             *)
(***************************************************************************)
CompileErrors == {"LexError", "ParseError"}

\* the text handed over last did not compile
LastFailedToCompile ==
    /\ handed # <<>>
    /\ handed[Len(handed)].exc \in CompileErrors

\* C21: a source is tokenized, then parsed, then run, and when the tokenizing
\* raises LexError or the parsing raises ParseError none of its statements
\* runs: the step that hands such a source over says nothing and leaves every
\* binding of the interpreter as it was, also when the statements before the
\* bad one are good (SET x TO 1 before an IF that is never closed, or before
\* a character that starts no token).
C21_CompileErrorRunsNothing ==
    [][(Len(handed') > Len(handed) /\ LastFailedToCompile')
          => /\ envs' = envs
             /\ rout' = rout
             /\ handed'[Len(handed')].said = 0
             /\ \E k \in DOMAIN reported' :
                   /\ reported'[k].at = Len(handed')
                   /\ reported'[k].stage = Stage[handed'[Len(handed')].exc]
      ]_vars

\* a first line whose first statement would bind x and whose last statement
\* does not parse was handed over, and x is not bound
C21_Witness ==
    /\ Len(handed) = 1
    /\ handed[1].source = <<<<"SET", "x", "TO", "1", "IF", "x", "THEN">>>>
    /\ handed[1].exc = "ParseError"
    /\ "x" \notin DOMAIN envs[1].vars
    /\ Len(reported) = 1

(***************************************************************************)
(* The root scope under .clear                                             *)
(***************************************************************************)
\* the mathematical constants a scope binds
MathConstants(scope) == {n \in DOMAIN scope.vars : scope.vars[n].k = "const"}

\* the bindings an interpreter starts with are in the scope
HoldsPreSeeded(scope) ==
    /\ {"LOOPCOUNT", "TRUE", "FALSE"} \subseteq DOMAIN scope.vars
    /\ scope.vars["TRUE"] = BoolValue(TRUE)
    /\ scope.vars["FALSE"] = BoolValue(FALSE)
    /\ Cardinality(MathConstants(scope)) = 2

\* a binding of the root scope is gone after the step: the step is .clear
Cleared == \E n \in DOMAIN envs[1].vars : n \notin DOMAIN envs'[1].vars

\* C22: .clear leaves the root scope with exactly the bindings a new
\* interpreter starts with (the loop counter at 0, the two boolean constants,
\* the two mathematical constants) and with no variable of the user, and the
\* root scope holds the pre-seeded bindings in every state the REPL reaches.
C22_ClearRestoresPreSeeded ==
    /\ [](HoldsPreSeeded(envs[1]))
    /\ [][Cleared => envs' = <<RootScope>>]_vars

(***************************************************************************)
(* Operators of one level                                                  *)
(***************************************************************************)
\* the op field of the node built for an operator token
OpField(tt) ==
    IF tt \in {"AND", "OR"} THEN lower_logic([type |-> tt]) ELSE OperatorText[tt]

LevelOf(tt) == CHOOSE l \in DOMAIN BinaryOperators : tt \in BinaryOperators[l]

\* no right operand of a binary node is, without parentheses, a binary node
\* of the same level
RECURSIVE LeftNested(_)
LeftNested(n) ==
    /\ n.node \in {"LogicNode", "CompareNode", "BinOpNode"} =>
          (n.right.paren \/ Level(n.right) > Level(n))
    /\ \A c \in Children(n) : LeftNested(c)

\* a op1 1 op2 "s" was parsed as (a op1 1) op2 "s"
LeftFirst(e, o1, o2) ==
    /\ e.node \in {"LogicNode", "CompareNode", "BinOpNode"}
    /\ e.op = OpField(o2)
    /\ e.right.node = "StringNode"
    /\ e.left.node = e.node
    /\ e.left.op = OpField(o1)
    /\ e.left.left.node = "IdentNode"
    /\ e.left.right.node = "NumberNode"

\* C23: the binary operators of one precedence level associate to the left:
\* a op1 b op2 c is parsed as (a op1 b) op2 c for every two operators of one
\* level, AND with OR and ** with itself and with * included, and in no
\* expression built is the right operand of a binary node an unparenthesised
\* binary node of the same level.
C23_LeftAssociative ==
    /\ \A i \in DOMAIN pbody : LeftNested(pbody[i])
    /\ (pstatus = "returned" /\ InputTypes \in ChainInputs
           /\ LevelOf(InputTypes[3]) = LevelOf(InputTypes[5]))
        => LeftFirst(pbody[1].expr, InputTypes[3], InputTypes[5])

\* a * 1 ** "s" parsed as (a * 1) ** "s"
C23_Witness ==
    /\ pstatus = "returned"
    /\ InputTypes = <<"SAY", "IDENTIFIER", "STAR", "NUMBER", "POWER", "STRING">>
    /\ pbody[1].expr.op = "**"
    /\ pbody[1].expr.left.op = "*"
    /\ pbody[1].expr.right.node = "StringNode"

(***************************************************************************)
(* The cursor of the parser                                                *)
(***************************************************************************)
\* the 0-based index of the EOF token
EofIndex(toks) == CHOOSE i \in 0..(Len(toks) - 1) : toks[i + 1].type = "EOF"

\* the positions of toks from the last to the first
Backwards(toks) == [q \in 1..Len(toks) |-> Len(toks) - q]

\* C26: on a token list that ends with EOF the cursor never moves past the
\* EOF token: pos is at most the index of EOF in every state of parse(),
\* whether it returns or raises, no token is read past the end of the list
\* (no IndexError), and the same holds of a statement started at any token.
C26_CursorNeverPastEof ==
    ptokens # <<>> =>
        /\ ptokens[Len(ptokens)].type = "EOF"
        /\ ppos <= EofIndex(ptokens)
        /\ pstatus # "IndexError"
        /\ (pstatus = "parsing" /\ ppos = 0) =>
              \A p \in 0..EofIndex(ptokens) : \A r \in {_statement(ptokens, p)} :
                  r.pos <= EofIndex(ptokens) /\ r.exc # "IndexError"

\* IF a THEN with nothing after it: the cursor is on EOF when ParseError is
\* raised
C26_Witness ==
    /\ pstatus = "ParseError"
    /\ InputTypes = <<"IF", "IDENTIFIER", "THEN">>
    /\ ppos = EofIndex(ptokens)
    /\ ppos = 3

\* a statement started at any token but EOF ends past that token or raises
EveryStatementAdvances(toks) ==
    \A q \in 1..(Len(toks) - 1) : \A r \in {_statement(toks, Backwards(toks)[q])} :
        r.exc = "none" => r.pos > Backwards(toks)[q]

\* C27: parse() terminates on every token list that ends with EOF: every
\* call of _statement, at the top level and in the bodies of IF, ELSE and
\* LOOP, consumes at least one token or raises, every turn of the loop of
\* parse moves the cursor forward, and parse ends by returning or raising.
C27_ParseTerminates ==
    /\ [](pstatus = "parsing" => EveryStatementAdvances(ptokens))
    /\ [][(pstatus = "parsing" /\ pstatus' = "parsing") => ppos' > ppos]_vars
    /\ <>ParserDone

\* parse() returned after a LOOP with an IF in its body
C27_Witness ==
    /\ pstatus = "returned"
    /\ Len(pbody) = 1
    /\ pbody[1].node = "LoopNode"
    /\ Len(pbody[1].body) = 1
    /\ pbody[1].body[1].node = "IfNode"
    /\ ppos = EofIndex(ptokens)

(***************************************************************************)
(* Comments                                                                *)
(***************************************************************************)
\* a comment starts at the cursor: '#', or '/' followed by '/'
CommentAhead ==
    /\ lstatus = "running"
    /\ pos < Len(source)
    /\ \/ source[pos + 1] = "#"
       \/ source[pos + 1] = "/" /\ pos + 1 < Len(source) /\ source[pos + 2] = "/"

\* a string literal starts at the cursor
QuoteAhead == lstatus = "running" /\ pos < Len(source) /\ source[pos + 1] \in {"\"", "'"}

NewlinesIn(src) == Cardinality({i \in DOMAIN src : src[i] = "\n"})

\* C24: with '#' or '//' at the cursor, which is never inside a string
\* literal, the lexer moves to the next newline, or to the end of the text
\* when there is none, and adds no token; the newline is not consumed with
\* the comment and gets its NEWLINE token like any other (a returned token
\* list has one NEWLINE for each newline of the text).  Between the quotes of
\* a string literal '#' and '/' are characters of the value like any other.
C24_CommentsProduceNoToken ==
    [][/\ CommentAhead =>
             /\ tokens' = tokens
             /\ lstatus' = "running"
             /\ pos' > pos
             /\ line' = line
             /\ \A i \in (pos + 1)..pos' : source[i] # "\n"
             /\ pos' < Len(source) => source[pos' + 1] = "\n"
       /\ lstatus' = "returned" =>
             Cardinality({i \in DOMAIN tokens' : tokens'[i].type = "NEWLINE"})
                = NewlinesIn(source)
       /\ (QuoteAhead /\ lstatus' = "running") =>
             /\ Len(tokens') = Len(tokens) + 1
             /\ tokens'[Len(tokens')].type = "STRING"
             /\ tokens'[Len(tokens')].value
                   = StrValue(join(SubSeq(source, pos + 2, pos' - 1)))
      ]_vars

\* the text '#a', a newline, 'a' was tokenized: NEWLINE, IDENTIFIER, EOF
C24_Witness ==
    /\ lstatus = "returned"
    /\ source = <<"#", "a", "\n", "a">>
    /\ Len(tokens) = 3
    /\ tokens[1].type = "NEWLINE"
    /\ tokens[2].type = "IDENTIFIER"

(***************************************************************************)
(* The positions tokens record                                             *)
(***************************************************************************)
\* the 1-based line of the character at 0-based position p of src
LineAt(src, p) == 1 + Cardinality({i \in 1..p : src[i] = "\n"})

\* the 1-based column of that character: its distance from the newline
\* before it, or from the start of the text
ColAt(src, p) ==
    LET before == {i \in 1..p : src[i] = "\n"}
        last   == IF before = {} THEN 0 ELSE CHOOSE i \in before : \A j \in before : j <= i
    IN  p + 1 - last

\* C28: every token but EOF records the position of its first character:
\* its line is 1 plus the number of newlines before that character and its
\* col is the 1-based column of that character.  A token added by a turn of
\* the loop of tokenize starts at the character the cursor was on.
C28_TokensRecordFirstChar ==
    [][lstatus = "running" =>
          \A i \in (Len(tokens) + 1)..Len(tokens') :
              tokens'[i].type # "EOF" =>
                 /\ tokens'[i].line = LineAt(source, pos)
                 /\ tokens'[i].col = ColAt(source, pos)
      ]_vars

(***************************************************************************)
(* Depth and buffer of the REPL                                            *)
(***************************************************************************)
\* the number of lines of the texts the REPL handed over itself
RECURSIVE LinesHanded(_)
LinesHanded(h) ==
    IF h = <<>> THEN 0
    ELSE (IF Head(h).via = "repl" THEN Len(Head(h).source) ELSE 0) + LinesHanded(Tail(h))

\* the step hands a text of the REPL over
HandsOver == Len(handed') > Len(handed) /\ handed'[Len(handed')].via = "repl"

\* C29: after any lines depth is not negative, and when depth is 0 after a
\* line the buffer is empty, so no text of a submission that ran or failed
\* is submitted again: after every line handled depth >= 0 and depth = 0
\* implies an empty buffer, what is handed over is the buffer with the line
\* just read, and the texts handed over and the buffer together hold no
\* more lines than were read.
C29_BufferEmptyAtDepthZero ==
    [][/\ depth' >= 0
       /\ depth' = 0 => buffer' = <<>>
       /\ LinesHanded(handed') + Len(buffer') <= nread'
       /\ HandsOver =>
            /\ SubSeq(handed'[Len(handed')].source, 1,
                      Len(handed'[Len(handed')].source) - 1) = buffer
            /\ handed'[Len(handed')].source[Len(buffer) + 1] \in ReplLines
            /\ buffer' = <<>>
            /\ depth' = 0
      ]_vars

\* a first line failed in the lexer, then IF x THEN and ENDIF were handed
\* over without it
C29_Witness ==
    /\ Len(handed) = 2
    /\ handed[1].source = <<<<"SET", "x", "TO", "1", "$">>>>
    /\ handed[1].exc = "LexError"
    /\ handed[2].source = <<<<"IF", "x", "THEN">>, <<"ENDIF">>>>
    /\ buffer = <<>>
    /\ depth = 0
    /\ nread = 3

(***************************************************************************)
(* Errors of user code and the end of the REPL loop                        *)
(***************************************************************************)
\* the loop of REPL.start goes on
LoopOn == running /\ exited = 0 - 1

\* the step ran a text, typed or of a file, that ended in an error
RanIntoError ==
    /\ Len(handed') > Len(handed)
    /\ handed'[Len(handed')].exc \in ErrorKinds

\* C30: a LexError, ParseError or RuntimeError_ of user code, typed at the
\* prompt or loaded with .run, is reported and the REPL goes on with its
\* interpreter; the loop ends only by .exit, by a program that terminates
\* itself, or by the end of the input.
C30_ErrorsKeepReplRunning ==
    [][/\ RanIntoError =>
             /\ \E k \in DOMAIN reported' :
                   /\ reported'[k].at = Len(handed')
                   /\ reported'[k].stage = Stage[handed'[Len(handed')].exc]
             /\ LoopOn'
             /\ Len(envs') = 1
             /\ DOMAIN envs[1].vars \subseteq DOMAIN envs'[1].vars
       /\ (LoopOn /\ ~LoopOn') =>
             \/ handed' = handed /\ ~running' /\ exited' = 0 - 1
             \/ Len(handed') > Len(handed) /\ handed'[Len(handed')].exc = "SystemExit"
             \/ handed' = handed /\ running' /\ exited' = 0
      ]_vars

(***************************************************************************)
(* The brace-syntax interpreter of src/interpreter.py: Interpreter.eval on *)
(* programs of assignments, while loops and prints.  bstack holds the      *)
(* calls of eval on a Program or a Block that have not returned, each with *)
(* its statements, the number of them already evaluated and its            *)
(* environment; benvs holds the Environment objects still referred to.     *)
(***************************************************************************)
Number(value) == [node |-> "Number", value |-> value]
Variable(name) == [node |-> "Variable", name |-> name]
BinaryOp(left, op, right) == [node |-> "BinaryOp", left |-> left, op |-> op, right |-> right]
Assignment(name, expr) == [node |-> "Assignment", name |-> name, expr |-> expr]
PrintStatement(expr) == [node |-> "PrintStatement", expr |-> expr]
Block(statements) == [node |-> "Block", statements |-> statements]
WhileStatement(condition, block) ==
    [node |-> "WhileStatement", condition |-> condition, block |-> block]
Program(statements) == [node |-> "Program", statements |-> statements]

\* Interpreter.is_truthy on booleans and numbers
is_truthy(value) ==
    CASE value.k = "bool" -> value.b
      [] value.k = "int" -> value.n # 0
      [] OTHER -> TRUE

\* eval on Number, Variable and BinaryOp with '+' and '<'
RECURSIVE eval_expr(_, _, _)
eval_expr(node, es, e) ==
    CASE node.node = "Number" -> [exc |-> "none", value |-> IntValue(node.value)]
      [] node.node = "Variable" -> Environment_get(es, e, node.name)
      [] node.node = "BinaryOp" ->
            LET left  == eval_expr(node.left, es, e)
                right == eval_expr(node.right, es, e)
            IN  IF left.exc # "none" THEN left
                ELSE IF right.exc # "none" THEN right
                ELSE [exc |-> "none",
                      value |-> IF node.op = "+" THEN IntValue(left.value.n + right.value.n)
                                ELSE BoolValue(left.value.n < right.value.n)]

\* the call of eval that is running, and the statement it is at
Frame == bstack[Len(bstack)]

AtStatement == bstatus = "running" /\ Frame.pc < Len(Frame.statements)

Statement == Frame.statements[Frame.pc + 1]

\* the expression the statement evaluates first
FirstExpr(stmt) == IF stmt.node = "WhileStatement" THEN stmt.condition ELSE stmt.expr

NextStatement == bstack' = [bstack EXCEPT ![Len(bstack)].pc = @ + 1]

\* interpreter.eval(ast): the Program is evaluated in global_env
BraceStart ==
    /\ bstatus = "new"
    /\ bstatus' = "running"
    /\ benvs' = <<Environment__init__(0)>>
    /\ bstack' = <<[statements |-> bprogram.statements, pc |-> 0, env |-> 1]>>
    /\ UNCHANGED <<bprogram, bout>>
    /\ UNCHANGED <<lexvars, parvars, envvars, runvars, replvars>>

\* Assignment: value = self.eval(node.expr, env); env.set(node.name, value)
BraceAssignment ==
    /\ AtStatement
    /\ Statement.node = "Assignment"
    /\ \E r \in {eval_expr(Statement.expr, benvs, Frame.env)} :
          /\ r.exc = "none"
          /\ benvs' = Environment_set(benvs, Frame.env, Statement.name, r.value)
    /\ NextStatement
    /\ UNCHANGED <<bprogram, bout, bstatus>>
    /\ UNCHANGED <<lexvars, parvars, envvars, runvars, replvars>>

\* PrintStatement
BracePrint ==
    /\ AtStatement
    /\ Statement.node = "PrintStatement"
    /\ \E r \in {eval_expr(Statement.expr, benvs, Frame.env)} :
          /\ r.exc = "none"
          /\ bout' = Append(bout, r.value)
    /\ NextStatement
    /\ UNCHANGED <<bprogram, benvs, bstatus>>
    /\ UNCHANGED <<lexvars, parvars, envvars, runvars, replvars>>

\* WhileStatement with a true condition: self.eval(node.block, env), and
\* Block: new_env = Environment(env)
BraceWhileBody ==
    /\ AtStatement
    /\ Statement.node = "WhileStatement"
    /\ \E r \in {eval_expr(Statement.condition, benvs, Frame.env)} :
          r.exc = "none" /\ is_truthy(r.value)
    /\ benvs' = Append(benvs, Environment__init__(Frame.env))
    /\ bstack' = Append(bstack, [statements |-> Statement.block.statements, pc |-> 0,
                                 env |-> Len(benvs) + 1])
    /\ UNCHANGED <<bprogram, bout, bstatus>>
    /\ UNCHANGED <<lexvars, parvars, envvars, runvars, replvars>>

\* WhileStatement with a false condition: return None
BraceWhileEnd ==
    /\ AtStatement
    /\ Statement.node = "WhileStatement"
    /\ \E r \in {eval_expr(Statement.condition, benvs, Frame.env)} :
          r.exc = "none" /\ ~is_truthy(r.value)
    /\ NextStatement
    /\ UNCHANGED <<bprogram, benvs, bout, bstatus>>
    /\ UNCHANGED <<lexvars, parvars, envvars, runvars, replvars>>

\* the end of a Block: eval returns to the while loop that called it, and
\* nothing refers to new_env any more
BraceBlockEnd ==
    /\ bstatus = "running"
    /\ Len(bstack) > 1
    /\ Frame.pc = Len(Frame.statements)
    /\ bstack' = SubSeq(bstack, 1, Len(bstack) - 1)
    /\ benvs' = SubSeq(benvs, 1, Len(benvs) - 1)
    /\ UNCHANGED <<bprogram, bout, bstatus>>
    /\ UNCHANGED <<lexvars, parvars, envvars, runvars, replvars>>

\* the end of the Program
BraceReturn ==
    /\ bstatus = "running"
    /\ Len(bstack) = 1
    /\ Frame.pc = Len(Frame.statements)
    /\ bstatus' = "returned"
    /\ UNCHANGED <<bprogram, bstack, benvs, bout>>
    /\ UNCHANGED <<lexvars, parvars, envvars, runvars, replvars>>

\* Environment.get raises NameError
BraceRaise ==
    /\ AtStatement
    /\ eval_expr(FirstExpr(Statement), benvs, Frame.env).exc # "none"
    /\ bstatus' = eval_expr(FirstExpr(Statement), benvs, Frame.env).exc
    /\ UNCHANGED <<bprogram, bstack, benvs, bout>>
    /\ UNCHANGED <<lexvars, parvars, envvars, runvars, replvars>>

\* the bodies of the loop: the counter i moved up by one or by two or set to
\* the bound, and another variable assigned
LoopBodies(bound) ==
    {<<Assignment("i", BinaryOp(Variable("i"), "+", Number(1)))>>,
     <<Assignment("i", BinaryOp(Variable("i"), "+", Number(2)))>>,
     <<Assignment("i", Number(bound))>>,
     <<Assignment("j", BinaryOp(Variable("i"), "+", Number(1)))>>}

\* i = start; while (v < bound) { body }; print(i)
BracePrograms ==
    {Program(<<Assignment("i", Number(start)),
               WhileStatement(BinaryOp(Variable(v), "<", Number(bound)), Block(body)),
               PrintStatement(Variable("i"))>>) :
        start \in 0..MaxCount, bound \in 0..MaxCount, v \in {"i", "k"},
        body \in UNION {LoopBodies(b) : b \in 0..MaxCount}}

BraceInit ==
    /\ bprogram \in BracePrograms
    /\ bstack = <<>>
    /\ benvs = <<>>
    /\ bout = <<>>
    /\ bstatus = "new"
    /\ LexerIdle
    /\ ParserIdle
    /\ EnvIdle
    /\ RunIdle
    /\ ReplIdle

BraceNext ==
    \/ BraceStart
    \/ BraceAssignment
    \/ BracePrint
    \/ BraceWhileBody
    \/ BraceWhileEnd
    \/ BraceBlockEnd
    \/ BraceReturn
    \/ BraceRaise

\* eval is sequential code: while it can take a step it takes one
BraceSpec == BraceInit /\ [][BraceNext]_vars /\ WF_vars(BraceNext)

\* the program is i = start; while (i < bound) { i = ... } with a body that
\* moves i toward the bound
CounterLoop ==
    /\ bstatus = "running"
    /\ bprogram.statements[2].condition.left = Variable("i")
    /\ bprogram.statements[2].block.statements[1].name = "i"
    /\ \/ bprogram.statements[2].block.statements[1].expr.node = "BinaryOp"
       \/ bprogram.statements[2].block.statements[1].expr
             = bprogram.statements[2].condition.right

\* C25: an assignment in the body of a while loop to a variable assigned in
\* an enclosing scope changes the value the condition of the loop reads, so
\* i = 0; while (i < 3) { i = i + 1 } and every loop whose body moves its
\* counter toward the bound ends after finitely many iterations.
C25_CounterLoopTerminates == CounterLoop ~> (bstatus = "returned")

====
